---- MODULE Spec2Model ----
(***************************************************************************)
(* Model of the FireRed mGBA bridge (firered_mgba_bridge.py and the        *)
(* firered_bridge package).                                                *)
(*                                                                         *)
(* Spec / SpecStreak : the /sendCommands input controller, one request     *)
(*                     served from start to response.  The emulator is the *)
(*                     environment: every read observes some game state,   *)
(*                     every emulator call may fail.                       *)
(* SpecServer        : the HTTP handlers run side by side on the server's  *)
(*                     thread pool; the emulator channel, the fog grid and *)
(*                     the minimap snapshot store are the shared objects.  *)
(***************************************************************************)
EXTENDS Integers, Sequences, FiniteSets, TLC

VARIABLES
    \* ---- /sendCommands controller (send_commands) ----
    body,                       \* body.commands as submitted
    normalized_commands,        \* the normalised command objects
    pc,                         \* position of the handler
    idx,                        \* index of the current command (0-based)
    before,                     \* before-state of the current step
    after,                      \* after-state of the current step
    wait_mode,                  \* how the after-state of this step is obtained
    step_ok,                    \* step["ok"] of the step being built
    step_err,                   \* whether the step carries an "error" string
    step_fault,                 \* an emulator fault hit the step being built
    results,                    \* the per-step records of the response
    remaining_keys,
    interrupted_by_dialog,
    interrupted_by_battle,
    interrupted_by_collision,
    interrupted_at_index,       \* -1 stands for None
    collision_streak,
    started_in_dialog,
    started_in_battle,
    issued,                     \* history: indices whose command reached the emulator
    faults,                     \* history: emulator faults so far
    \* ---- the server: handlers on pool threads, the shared objects ----
    thKind,                     \* the handler each pool thread is running
    thPc,                       \* its position in the handler's program
    thSub,                      \* its position inside the current operation
    thRead,                     \* the player position it read last
    thOut,                      \* snapshot(): the local "out"
    outstanding,                \* threads with a request on the emulator channel
    store_lock,                 \* holder of _MINIMAP_SNAPSHOT._lock
    store_seq,                  \* _MINIMAP_SNAPSHOT._seq
    store_data,                 \* _MINIMAP_SNAPSHOT._data
    fogGrid,                    \* the rows of the process-wide fog grid
    stored,                     \* history: what each update stored, by seq
    \* ---- the savestate backup of /requestData (_maybe_backup_savestate) ----
    clock,                      \* time.time(), in whole seconds
    LAST_SAVESTATE_BACKUP_TS,   \* _LAST_SAVESTATE_BACKUP_TS, -1 stands for None
    SAVESTATE_BACKUP_LOCK,      \* holder of _SAVESTATE_BACKUP_LOCK
    bkPc,                       \* position of each thread in the backup
    bkNow,                      \* the local "now" of each thread
    newest_backup,              \* mtime of the newest backup file, -1 if none
    save_requests,              \* history: the times of the save requests
    \* ---- the fog of war of the state builder (builders.py) ----
    fog_grids,                  \* the process-wide map id -> FogGrid
    full_map,                   \* full_map of the snapshot built last
    fog_last,                   \* history: the fog update made last
    fog_calls,                  \* history: fog updates so far
    \* ---- the BG-event reader (world/events.py) ----
    BG_EVENTS_CACHE,            \* _BG_EVENTS_CACHE: events base -> list
    bg_ret,                     \* what get_current_map_bg_events returned last
    bg_last,                    \* history: the call made last
    CONNECTIONS_CACHE,          \* _CONNECTIONS_CACHE: connections pointer -> list
    conn_ret,                   \* what get_current_map_connections returned last
    conn_last,                  \* history: the call made last
    \* ---- the caches of build_full_state (builders.py) ----
    now_ts,                     \* perf_counter(), in tenths of a second
    LAST_BAG_CACHE,             \* _LAST_BAG_CACHE_KEY / _TS / _STATE
    LAST_PC_CACHE,              \* _LAST_PC_CACHE_KEY / _TS / _STATE
    LAST_DIALOG_CACHE,          \* _LAST_DIALOG_CACHE_KEY / _STATE
    build_last,                 \* history: the build made last
    builds,                     \* history: builds so far
    MAP_STATIC_CACHE,           \* _MAP_STATIC_CACHE of world/map_read.py
    BEHAVIOR_BY_ATTR_PTR_CACHE, \* the attribute pointers whose behaviors are kept
    map_read_last,              \* history: the map read made last
    map_reads,                  \* history: map reads so far
    \* ---- the loop of a_until_end_of_dialog ----
    dlg_pc,                     \* "running" inside the while loop, "done" after it
    presses,                    \* len(presses)
    a_issued,                   \* history: calls of mgba_control("a")
    dlg_elapsed,                \* time.monotonic() - started_at, in seconds
    stop_reason,                \* stop_reason
    transcript,                 \* transcript
    dlg_last,                   \* history: the iteration made last
    \* ---- the map pointers the event readers keep, and the game's warp ----
    game_location,              \* gSaveBlock1Ptr->location: the map id in memory
    game_header,                \* gMapHeader: the map whose header is loaded
    MAP_EVENTS_BASE_BY_MAP,     \* _MAP_EVENTS_BASE_BY_MAP of world/events.py
    MAP_CONNECTIONS_PTR_BY_MAP, \* _MAP_CONNECTIONS_PTR_BY_MAP of world/events.py
    ptr_pc,                     \* where the state build stands among its reads
    snap_key,                   \* (map_group, map_num) of the build's snapshot
    ptr_last,                   \* history: the pointer read made last
    \* ---- the waits of a step of /sendCommands ----
    wait_pc,                    \* the wait the step stands in
    cmds_left,                  \* commands of the call not yet answered
    wait_par,                   \* the timeouts of the step's command
    wait_clock,                 \* time.monotonic() - start of the wait under way
    game,                       \* the trace state of the emulator right now
    wait_before,                \* before: the state read when the step began
    last_seen,                  \* last / cur: the state the wait read last
    window_last_key,            \* last_key of the lock transition window
    stable_unlocked_polls,      \* stable_unlocked_polls
    wait_info,                  \* wait_info
    wait_after,                 \* step["after"]
    wait_hist,                  \* history: how the waits of the step went
    \* ---- the decoders applied to given memory ----
    arg,                        \* the arguments of the call
    ret                         \* what the call returned

ctlVars == << body, normalized_commands, pc, idx, before, after, wait_mode,
              step_ok, step_err, step_fault, results, remaining_keys,
              interrupted_by_dialog, interrupted_by_battle,
              interrupted_by_collision, interrupted_at_index, collision_streak,
              started_in_dialog, started_in_battle, issued, faults >>

srvVars == << thKind, thPc, thSub, thRead, thOut, outstanding, store_lock, store_seq,
              store_data, fogGrid, stored >>

bkVars == << clock, LAST_SAVESTATE_BACKUP_TS, SAVESTATE_BACKUP_LOCK, bkPc, bkNow,
             newest_backup, save_requests >>

fogVars == << fog_grids, full_map, fog_last, fog_calls >>

evVars == << BG_EVENTS_CACHE, bg_ret, bg_last, CONNECTIONS_CACHE, conn_ret, conn_last >>

buildVars == << now_ts, LAST_BAG_CACHE, LAST_PC_CACHE, LAST_DIALOG_CACHE, build_last,
                builds >>
mapReadVars == << MAP_STATIC_CACHE, BEHAVIOR_BY_ATTR_PTR_CACHE, map_read_last, map_reads >>
cacheVars == << buildVars, mapReadVars >>

dlgVars == << dlg_pc, presses, a_issued, dlg_elapsed, stop_reason, transcript, dlg_last >>
ptrVars == << game_location, game_header, MAP_EVENTS_BASE_BY_MAP,
              MAP_CONNECTIONS_PTR_BY_MAP, ptr_pc, snap_key, ptr_last >>
waitVars == << wait_pc, cmds_left, wait_par, wait_clock, game, wait_before, last_seen,
               window_last_key, stable_unlocked_polls, wait_info, wait_after, wait_hist >>
loopVars == << dlgVars, ptrVars, waitVars >>

fnVars == << arg, ret >>

vars == << ctlVars, srvVars, bkVars, fogVars, evVars, cacheVars, loopVars, fnVars >>

\* what the controller, the server handlers and the backup leave alone
nonCtlVars == << srvVars, bkVars, fogVars, evVars, cacheVars, loopVars, fnVars >>
nonSrvVars == << ctlVars, bkVars, fogVars, evVars, cacheVars, loopVars, fnVars >>
nonBkVars == << ctlVars, srvVars, fogVars, evVars, cacheVars, loopVars, fnVars >>
nonFogVars == << ctlVars, srvVars, bkVars, evVars, cacheVars, loopVars, fnVars >>
nonEvVars == << ctlVars, srvVars, bkVars, fogVars, cacheVars, loopVars, fnVars >>
nonFnVars == << ctlVars, srvVars, bkVars, fogVars, evVars, cacheVars, loopVars >>
nonLoopVars == << ctlVars, srvVars, bkVars, fogVars, evVars, cacheVars, fnVars >>
nonCacheVars == << ctlVars, srvVars, bkVars, fogVars, evVars, loopVars, fnVars >>

-----------------------------------------------------------------------------
(* Bounds of the model.                                                    *)

MaxCmds == 2            \* longest command list submitted under Spec
MaxStreakCmds == 6      \* longest command list submitted under SpecStreak
MaxFaults == 1          \* emulator faults injected during one request
MaxSeq == 3             \* updates of the snapshot store that change it
MaxFog == 2             \* times the fog grid gains newly discovered cells

-----------------------------------------------------------------------------
(* Python values.  A string is the sequence of its characters, so that     *)
(* strip / lower / replace are computed, not assumed.                      *)

PyStr(s) == [t |-> "str", v |-> s]
PyNone == [t |-> "none", v |-> <<>>]
PyInt == [t |-> "int", v |-> <<"5">>]              \* a non-zero number
PyList(s) == [t |-> "list", v |-> s]
\* a command object; a key that is absent reads as None, as with dict.get
PyDict(type, command, buttons, button) ==
    [t |-> "dict",
     v |-> << [type |-> type, command |-> command, buttons |-> buttons, button |-> button] >>]

IsStr(x) == x.t = "str"
IsDict(x) == x.t = "dict"
Fields(d) == d.v[1]
\* Python truthiness of a value
Truthy(x) == IF x.t = "none" THEN FALSE ELSE x.v # <<>>

Whitespace == {" ", "\t", "\n"}
UpperChars == <<"A", "B", "C", "D", "E", "F", "G", "H", "I", "J", "K", "L", "M",
               "N", "O", "P", "Q", "R", "S", "T", "U", "V", "W", "X", "Y", "Z">>
LowerChars == <<"a", "b", "c", "d", "e", "f", "g", "h", "i", "j", "k", "l", "m",
               "n", "o", "p", "q", "r", "s", "t", "u", "v", "w", "x", "y", "z">>

LowerChar(c) ==
    IF \E i \in 1..Len(UpperChars) : UpperChars[i] = c
    THEN LowerChars[CHOOSE i \in 1..Len(UpperChars) : UpperChars[i] = c]
    ELSE c

RECURSIVE LStrip(_)
LStrip(s) == IF s # <<>> /\ Head(s) \in Whitespace THEN LStrip(Tail(s)) ELSE s

RECURSIVE RStrip(_)
RStrip(s) ==
    IF s # <<>> /\ s[Len(s)] \in Whitespace THEN RStrip(SubSeq(s, 1, Len(s) - 1)) ELSE s

\* str.strip()
Strip(s) == RStrip(LStrip(s))
\* str.lower()
Lower(s) == [i \in 1..Len(s) |-> LowerChar(s[i])]
\* str.replace("-", "_")
ReplaceDash(s) == [i \in 1..Len(s) |-> IF s[i] = "-" THEN "_" ELSE s[i]]

normalize_control_command(command) == ReplaceDash(Lower(Strip(command)))

S_up == <<"u", "p">>
S_down == <<"d", "o", "w", "n">>
S_left == <<"l", "e", "f", "t">>
S_right == <<"r", "i", "g", "h", "t">>
S_a == <<"a">>

DIRECTIONAL_CONTROL_COMMANDS == {S_up, S_down, S_left, S_right}

is_directional_control_command(command) ==
    IF ~IsStr(command) THEN FALSE
    ELSE normalize_control_command(command.v) \in DIRECTIONAL_CONTROL_COMMANDS

-----------------------------------------------------------------------------
(* Trace states: what build_input_trace_state() returns.  st = "full" is a *)
(* state read from the emulator, "empty" is the {} the controller falls    *)
(* back to when the read fails, "none" is Python's None.                   *)

TraceState(m, p, d, b, f) ==
    [st |-> "full", map |-> m, pos |-> p, inDialog |-> d, inBattle |-> b, fieldLocked |-> f]
EmptyState == [st |-> "empty", map |-> 0, pos |-> 0, inDialog |-> FALSE,
               inBattle |-> FALSE, fieldLocked |-> FALSE]
NoneState == [st |-> "none", map |-> 0, pos |-> 0, inDialog |-> FALSE,
              inBattle |-> FALSE, fieldLocked |-> FALSE]

\* (map, position) pairs the player can be observed at: two tiles of one
\* map and one tile of another map.
Locs == { <<1, 1>>, <<1, 2>>, <<2, 1>> }

\* (inDialog, inBattle, fieldControlsLocked): overworld, field controls
\* locked by a script, dialog, battle, dialog during a battle
Modes == { <<FALSE, FALSE, FALSE>>, <<FALSE, FALSE, TRUE>>, <<TRUE, FALSE, FALSE>>,
           <<FALSE, TRUE, FALSE>>, <<TRUE, TRUE, FALSE>> }

GameStates == { TraceState(l[1], l[2], m[1], m[2], m[3]) : l \in Locs, m \in Modes }

\* Observations used under SpecStreak: walking or blocked in the overworld,
\* and a dialog opening.
StreakStates ==
    { TraceState(1, 1, FALSE, FALSE, FALSE), TraceState(1, 2, FALSE, FALSE, FALSE),
      TraceState(1, 1, TRUE, FALSE, FALSE) }

\* _trace_map_tuple / _trace_position_tuple: None unless both numbers are there
trace_map_tuple(state) == IF state.st = "full" THEN <<state.map>> ELSE <<>>
trace_position_tuple(state) == IF state.st = "full" THEN <<state.pos>> ELSE <<>>

\* _trace_key_fields: .get() of a missing key is None, bool(None) is False
trace_key_fields(state) ==
    [pos |-> IF state.st = "full" THEN <<state.pos>> ELSE <<>>,
     fieldLocked |-> state.st = "full" /\ state.fieldLocked,
     inBattle |-> state.st = "full" /\ state.inBattle,
     inDialog |-> state.st = "full" /\ state.inDialog]

-----------------------------------------------------------------------------
(* The submitted command entries.                                          *)

E_up == PyStr(S_up)                                          \* "up"
E_padUp == PyStr(<<" ", "U", "p", " ">>)                     \* " Up "
E_blank == PyStr(<<" ">>)                                    \* " "
E_int == PyInt                                               \* 5
E_ctlLeft == PyDict("control", PyStr(S_left), PyNone, PyNone)
E_ctlA == PyDict("control", PyStr(S_a), PyNone, PyNone)
E_ctlBad == PyDict("control", PyInt, PyNone, PyNone)         \* command: 5
E_press == PyDict("press", PyNone, PyList(<<PyStr(S_a)>>), PyNone)
E_status == PyDict("controlStatus", PyNone, PyNone, PyNone)
E_bogus == PyDict("bogus", PyNone, PyNone, PyNone)

Entries == { E_padUp, E_blank, E_int, E_ctlLeft, E_ctlA, E_ctlBad, E_press, E_status,
             E_bogus }
StreakEntries == { E_up, E_ctlA }

SeqsUpTo(S, n) == UNION { [1..k -> S] : k \in 0..n }

Bodies == SeqsUpTo(Entries, MaxCmds)
StreakBodies == SeqsUpTo(StreakEntries, MaxStreakCmds)

\* send_commands: "Normalize string commands into bridge command objects."
RECURSIVE NormalizeCommands(_)
NormalizeCommands(items) ==
    IF items = <<>> THEN <<>>
    ELSE LET item == Head(items)
             rest == NormalizeCommands(Tail(items))
         IN  IF IsStr(item)
             THEN IF Strip(item.v) = <<>> THEN rest
                  ELSE <<PyDict("control", PyStr(Strip(item.v)), PyNone, PyNone)>> \o rest
             ELSE IF IsDict(item) THEN <<item>> \o rest
             ELSE rest

-----------------------------------------------------------------------------
(* The per-step decisions of send_commands.                                *)

CollisionLimit == 5

ValidButtons(buttons) == buttons.t = "list" /\ buttons.v # <<>>
ValidControl(command) == IsStr(command) /\ Strip(command.v) # <<>>

\* does the dispatch of this command call the emulator
CallsEmulator(cmd) ==
    CASE cmd.type = "press" -> ValidButtons(cmd.buttons)
      [] cmd.type = "hold" -> Truthy(cmd.button)
      [] cmd.type = "control" -> ValidControl(cmd.command)
      [] cmd.type = "controlStatus" -> TRUE
      [] OTHER -> FALSE

\* how the after-state is obtained once the command is out: press and hold
\* wait outside any try, control waits inside its try, everything else uses
\* the guarded fallback read
WaitModeOf(cmd) ==
    CASE cmd.type \in {"press", "hold"} /\ CallsEmulator(cmd) -> "unprotected"
      [] cmd.type = "control" /\ CallsEmulator(cmd) -> "protected"
      [] OTHER -> "fallback"

\* the collision / "bumped" detection block
CollisionStreakAfter(cmd, b, a, streak) ==
    IF cmd.type = "control"
    THEN LET cmd_str == IF Truthy(cmd.command) THEN cmd.command ELSE PyStr(<<>>)
         IN  IF ~IsStr(cmd_str)
             THEN streak        \* .strip() raises, "except Exception: pass"
             ELSE IF normalize_control_command(cmd_str.v) \notin DIRECTIONAL_CONTROL_COMMANDS
             THEN 0
             ELSE LET before_fields == trace_key_fields(b)
                      after_fields == trace_key_fields(a)
                      same_map == trace_map_tuple(b) = trace_map_tuple(a)
                      overworld_before == /\ ~before_fields.inDialog
                                          /\ ~before_fields.inBattle
                                          /\ ~before_fields.fieldLocked
                      overworld_after == /\ ~after_fields.inDialog
                                         /\ ~after_fields.inBattle
                                         /\ ~after_fields.fieldLocked
                      same_pos == before_fields.pos = after_fields.pos
                      pos_ok == before_fields.pos # <<>>
                  IN  IF pos_ok /\ same_map /\ overworld_before /\ overworld_after /\ same_pos
                      THEN streak + 1
                      ELSE 0
    ELSE 0

\* variant: the stop comes one collision late
CollisionStopLate(streak) == streak > CollisionLimit

CollisionStop(streak) == streak >= CollisionLimit

\* variant: a dialog / battle in the after-state stops the sequence whatever
\* the state the call started in
entered_whatever_start(started, a) == a.st = "full" /\ a.inDialog

entered_dialog(started, a) == (~started) /\ a.st = "full" /\ a.inDialog
entered_battle(started, a) == (~started) /\ a.st = "full" /\ a.inBattle

\* variant: every interrupted directional control is requeued
requeue_if_directional(cmd, b, a) ==
    /\ cmd.type = "control"
    /\ is_directional_control_command(cmd.command)

requeue_current(cmd, b, a) ==
    /\ cmd.type = "control"
    /\ is_directional_control_command(cmd.command)
    /\ trace_map_tuple(b) = trace_map_tuple(a)
    /\ trace_position_tuple(b) # <<>>
    /\ trace_position_tuple(b) = trace_position_tuple(a)

\* normalized_commands[i:]
SliceFrom(cmds, i) == SubSeq(cmds, i + 1, Len(cmds))

\* variant: the whole list is handed back
RemainingWholeList(cmds, i, requeue) == cmds

\* variant: the command after the stopping step is dropped
RemainingSkipsOne(cmds, i, requeue) == SliceFrom(cmds, i + 2)

RemainingAfterCollision(cmds, i) == SliceFrom(cmds, i + 1)
RemainingAfterInterrupt(cmds, i, requeue) == SliceFrom(cmds, IF requeue THEN i ELSE i + 1)

\* variant: every record carries the first command of the list
StepRecordOfFirst(i, cmds, ok, err, flt) ==
    [index |-> i, command |-> cmds[1], ok |-> ok, error |-> err, fault |-> flt]

\* the step record appended to results: index, command, ok, whether an "error"
\* string is present; fault is history (an emulator call of the step failed)
StepRecord(i, cmds, ok, err, flt) ==
    [index |-> i, command |-> cmds[i + 1], ok |-> ok, error |-> err, fault |-> flt]

overall_status == results # <<>> /\ \A k \in 1..Len(results) : results[k].ok

-----------------------------------------------------------------------------
(* The /sendCommands handler.  G is the set of game states a read of the   *)
(* emulator can return, F the outcomes of an emulator call (TRUE = the     *)
(* call fails: channel closed, failed read).                               *)

CtlInit ==
    /\ body = <<>>
    /\ normalized_commands = <<>>
    /\ pc = "idle"
    /\ idx = 0
    /\ before = NoneState
    /\ after = NoneState
    /\ wait_mode = "fallback"
    /\ step_ok = FALSE
    /\ step_err = FALSE
    /\ step_fault = FALSE
    /\ results = <<>>
    /\ remaining_keys = <<>>
    /\ interrupted_by_dialog = FALSE
    /\ interrupted_by_battle = FALSE
    /\ interrupted_by_collision = FALSE
    /\ interrupted_at_index = -1
    /\ collision_streak = 0
    /\ started_in_dialog = FALSE
    /\ started_in_battle = FALSE
    /\ issued = <<>>
    /\ faults = 0

\* the outcomes of one call of the memory / input client: FALSE = it returns,
\* TRUE = it fails with BridgeUnavailable (the channel is closed)
BridgeUnavailable(F, n) == IF n < MaxFaults THEN F ELSE {FALSE}

\* an exception leaves send_commands: the request is answered with an error
\* by the server, no response object is built
Raise ==
    /\ pc' = "raised"
    /\ faults' = faults + 1
    /\ UNCHANGED << normalized_commands, idx, before, after, wait_mode, step_ok, step_err,
                    step_fault, results, remaining_keys, interrupted_by_dialog,
                    interrupted_by_battle, interrupted_by_collision, interrupted_at_index,
                    collision_streak, started_in_dialog, started_in_battle >>

\* sequence_before = build_input_trace_state(); the started_in_* flags; the
\* normalisation of body.commands
SendCommandsBegin(B, G, F) ==
    /\ pc = "idle"
    /\ UNCHANGED issued
    /\ \E b \in B, g \in G, f \in BridgeUnavailable(F, faults) :
         /\ body' = b
         /\ IF f
            THEN Raise
            ELSE /\ started_in_dialog' = g.inDialog
                 /\ started_in_battle' = g.inBattle
                 /\ normalized_commands' = NormalizeCommands(b)
                 /\ pc' = IF NormalizeCommands(b) = <<>> THEN "done" ELSE "step_before"
                 /\ UNCHANGED << idx, before, after, wait_mode, step_ok, step_err, step_fault,
                                 results, remaining_keys, interrupted_by_dialog,
                                 interrupted_by_battle, interrupted_by_collision,
                                 interrupted_at_index, collision_streak, faults >>

\* before = build_input_trace_state() at the top of the loop body
StepBefore(G, F) ==
    /\ pc = "step_before"
    /\ UNCHANGED << body, issued >>
    /\ \E g \in G, f \in BridgeUnavailable(F, faults) :
         IF f
         THEN Raise
         ELSE /\ before' = g
              /\ after' = NoneState
              /\ pc' = "step_issue"
              /\ UNCHANGED << normalized_commands, idx, wait_mode, step_ok, step_err,
                              step_fault, results, remaining_keys, interrupted_by_dialog,
                              interrupted_by_battle, interrupted_by_collision,
                              interrupted_at_index, collision_streak, started_in_dialog,
                              started_in_battle, faults >>

\* the dispatch on ctype up to the emulator call of the command
StepIssue(F) ==
    /\ pc = "step_issue"
    /\ UNCHANGED body
    /\ LET cmd == Fields(normalized_commands[idx + 1])
           calls == CallsEmulator(cmd)
       IN  \E f \in (IF calls THEN BridgeUnavailable(F, faults) ELSE {FALSE}) :
             /\ issued' = IF calls THEN Append(issued, idx) ELSE issued
             /\ IF f /\ cmd.type \in {"press", "hold"}
                THEN Raise          \* mgba_press_buttons / mgba_hold_button: no try
                ELSE \* control, controlStatus: the exception is caught and becomes
                     \* ok=False with an error string
                     /\ faults' = IF f THEN faults + 1 ELSE faults
                     /\ step_fault' = f
                     /\ step_ok' = (calls /\ ~f)
                     /\ step_err' = ((~calls) \/ f)
                     /\ wait_mode' = IF f THEN "fallback" ELSE WaitModeOf(cmd)
                     /\ pc' = "step_after"
                     /\ UNCHANGED << normalized_commands, idx, before, after, results,
                                     remaining_keys, interrupted_by_dialog,
                                     interrupted_by_battle, interrupted_by_collision,
                                     interrupted_at_index, collision_streak,
                                     started_in_dialog, started_in_battle >>

\* everything after the after-state is known: the step record, the collision
\* streak, the collision stop, the dialog / battle interruption, the next index
CompleteStep(a, ok, err, flt, nfaults) ==
    LET cmd == Fields(normalized_commands[idx + 1])
        streak == CollisionStreakAfter(cmd, before, a, collision_streak)
        in_dialog == entered_dialog(started_in_dialog, a)
        in_battle == entered_battle(started_in_battle, a)
        requeue == requeue_current(cmd, before, a)
        last == (idx + 1 >= Len(normalized_commands))
    IN  /\ after' = a
        /\ faults' = nfaults
        /\ step_ok' = ok
        /\ step_err' = err
        /\ step_fault' = flt
        /\ results' = Append(results, StepRecord(idx, normalized_commands, ok, err, flt))
        /\ collision_streak' = streak
        /\ IF CollisionStop(streak)
           THEN /\ remaining_keys' = RemainingAfterCollision(normalized_commands, idx)
                /\ interrupted_by_collision' = TRUE
                /\ interrupted_at_index' = idx
                /\ pc' = "done"
                /\ UNCHANGED << idx, interrupted_by_dialog, interrupted_by_battle >>
           ELSE IF in_dialog \/ in_battle
           THEN /\ remaining_keys' = RemainingAfterInterrupt(normalized_commands, idx, requeue)
                /\ interrupted_by_dialog' = in_dialog
                /\ interrupted_by_battle' = in_battle
                /\ interrupted_at_index' = idx
                /\ pc' = "done"
                /\ UNCHANGED << idx, interrupted_by_collision >>
           ELSE /\ idx' = IF last THEN idx ELSE idx + 1
                /\ pc' = IF last THEN "done" ELSE "step_before"
                /\ UNCHANGED << remaining_keys, interrupted_by_dialog, interrupted_by_battle,
                                interrupted_by_collision, interrupted_at_index >>
        /\ UNCHANGED << body, normalized_commands, before, wait_mode, started_in_dialog,
                        started_in_battle, issued >>

\* the after-state: _wait_for_after_state (outside a try for press and hold,
\* inside the try for control) or the guarded fallback read, then the rest of
\* the loop body
StepAfter(G, F) ==
    /\ pc = "step_after"
    /\ \E g \in G, f \in BridgeUnavailable(F, faults) :
         CASE wait_mode = "unprotected" ->
                IF f THEN Raise /\ UNCHANGED << body, issued >>
                ELSE CompleteStep(g, step_ok, step_err, step_fault, faults)
           [] wait_mode = "protected" ->
                IF f
                THEN \E f2 \in BridgeUnavailable(F, faults + 1) :
                        CompleteStep(IF f2 THEN EmptyState ELSE g, FALSE, TRUE, TRUE,
                                     faults + (IF f2 THEN 2 ELSE 1))
                ELSE CompleteStep(g, step_ok, step_err, step_fault, faults)
           [] OTHER ->
                IF f
                THEN CompleteStep(EmptyState, step_ok, step_err, TRUE, faults + 1)
                ELSE CompleteStep(g, step_ok, step_err, step_fault, faults)

-----------------------------------------------------------------------------
(* The server.  FastAPI runs the handlers, plain functions, on the threads *)
(* of its pool, so two requests are served side by side.  A handler is     *)
(* the sequence of its operations on the shared objects:                   *)
(*   "emu"          a call of the memory / input client                    *)
(*   "fog"          the fog engine updating the map's grid in place        *)
(*   "update"       _MINIMAP_SNAPSHOT.update(...) from a trace state       *)
(*   "update_grid"  _MINIMAP_SNAPSHOT.update(grid=...)                     *)
(*   "update_full"  _MINIMAP_SNAPSHOT.update(...) from a full state        *)
(*   "snapshot"     _MINIMAP_SNAPSHOT.snapshot()                           *)

Threads == {"t1", "t2"}
NoThread == "none"
PosValues == {1, 2}
Rows == {1, 2}

\* request_data: build_full_state (reads, then the fog update), the savestate
\* backup and the screenshot, the update of the snapshot store
RequestDataProgram == <<"emu", "fog", "emu", "update_full">>

\* send_commands with one command: sequence_before and its update, the step
\* (before, command, after) and its update, the fog hook and its update
SendCommandsProgram == <<"emu", "update", "emu", "update", "emu", "fog", "update_grid">>

\* variant: the snapshot endpoint reads the emulator first
MinimapProgramWithRead == <<"emu", "snapshot">>

\* minimap_snapshot: only _MINIMAP_SNAPSHOT.snapshot()
MinimapSnapshotProgram == <<"snapshot">>

Program(kind) ==
    CASE kind = "requestData" -> RequestDataProgram
      [] kind = "sendCommands" -> SendCommandsProgram
      [] kind = "minimapSnapshot" -> MinimapSnapshotProgram
      [] OTHER -> <<>>

Handlers == {"requestData", "sendCommands", "minimapSnapshot"}

Op(t) == IF thPc[t] <= Len(Program(thKind[t])) THEN Program(thKind[t])[thPc[t]] ELSE "return"

\* snapshot() of an empty store returns None
NoSnapshot == [seq |-> 0, pos |-> 0, grid |-> <<>>]
\* _data is None
NoData == [pos |-> 0, hasGrid |-> FALSE]

SrvInit ==
    /\ thKind = [t \in Threads |-> "idle"]
    /\ thPc = [t \in Threads |-> 1]
    /\ thSub = [t \in Threads |-> "ready"]
    /\ thRead = [t \in Threads |-> 0]
    /\ thOut = [t \in Threads |-> NoSnapshot]
    /\ outstanding = {}
    /\ store_lock = NoThread
    /\ store_seq = 0
    /\ store_data = NoData
    /\ fogGrid = [r \in Rows |-> 0]
    /\ stored = [n \in 1..MaxSeq |-> NoSnapshot]

Advance(t) ==
    /\ thPc' = [thPc EXCEPT ![t] = thPc[t] + 1]
    /\ thSub' = [thSub EXCEPT ![t] = "ready"]

\* the pool hands a request to a free thread
StartRequest(t) ==
    /\ thKind[t] = "idle"
    /\ \E k \in Handlers : thKind' = [thKind EXCEPT ![t] = k]
    /\ thPc' = [thPc EXCEPT ![t] = 1]
    /\ thSub' = [thSub EXCEPT ![t] = "ready"]
    /\ thOut' = [thOut EXCEPT ![t] = NoSnapshot]
    /\ thRead' = [thRead EXCEPT ![t] = 0]
    /\ UNCHANGED << outstanding, store_lock, store_seq, store_data, fogGrid, stored >>

\* the handler returns its response
ReturnResponse(t) ==
    /\ thKind[t] # "idle"
    /\ Op(t) = "return"
    /\ thKind' = [thKind EXCEPT ![t] = "idle"]
    /\ UNCHANGED << thPc, thSub, thRead, thOut, outstanding, store_lock, store_seq,
                    store_data, fogGrid, stored >>

\* a client call goes out on the channel: a blocking call, nothing makes the
\* caller wait for a call of another thread
EmuSend(t) ==
    /\ Op(t) = "emu" /\ thSub[t] = "ready"
    /\ outstanding' = outstanding \cup {t}
    /\ thSub' = [thSub EXCEPT ![t] = "sent"]
    /\ UNCHANGED << thKind, thPc, thRead, thOut, store_lock, store_seq, store_data,
                    fogGrid, stored >>

\* the emulator answers
EmuRecv(t) ==
    /\ Op(t) = "emu" /\ thSub[t] = "sent"
    /\ outstanding' = outstanding \ {t}
    /\ \E v \in PosValues : thRead' = [thRead EXCEPT ![t] = v]
    /\ Advance(t)
    /\ UNCHANGED << thKind, thOut, store_lock, store_seq, store_data, fogGrid, stored >>

\* refresh_discovered / discover_rect on the grid of the map: the cells are
\* set in the grid object itself
FogUpdate(t) ==
    /\ Op(t) = "fog"
    /\ fogGrid' = IF fogGrid[1] < MaxFog THEN [r \in Rows |-> fogGrid[r] + 1] ELSE fogGrid
    /\ Advance(t)
    /\ UNCHANGED << thKind, thRead, thOut, outstanding, store_lock, store_seq, store_data,
                    stored >>

\* update(): "with self._lock:"
UpdateAcquire(t) ==
    /\ Op(t) \in {"update", "update_grid", "update_full"} /\ thSub[t] = "ready"
    /\ store_lock = NoThread
    /\ store_seq < MaxSeq
    /\ store_lock' = t
    /\ thSub' = [thSub EXCEPT ![t] = "locked"]
    /\ UNCHANGED << thKind, thPc, thRead, thOut, outstanding, store_seq, store_data,
                    fogGrid, stored >>

\* variant: every update moves seq
seq_moves_always(seq, updated) == seq + 1
\* update(): "if not updated: return", then "self._seq += 1"
seq_after_update(seq, updated) == IF updated THEN seq + 1 ELSE seq

\* update(): the body under the lock.  The grid is stored by reference; seq
\* moves only when something changed.
UpdateWrite(t) ==
    /\ Op(t) \in {"update", "update_grid", "update_full"} /\ thSub[t] = "locked"
    /\ LET withPos == Op(t) \in {"update", "update_full"}
           withGrid == Op(t) \in {"update_grid", "update_full"}
           next_data == [pos |-> IF withPos THEN thRead[t] ELSE store_data.pos,
                         hasGrid |-> withGrid \/ store_data.hasGrid]
           updated == withGrid \/ (withPos /\ store_data.pos # thRead[t])
       IN  IF updated
           THEN /\ store_seq' = seq_after_update(store_seq, updated)
                /\ store_data' = next_data
                /\ stored' = [stored EXCEPT ![store_seq + 1] =
                                 [seq |-> store_seq + 1, pos |-> next_data.pos,
                                  grid |-> IF next_data.hasGrid THEN fogGrid ELSE <<>>]]
           ELSE /\ store_seq' = seq_after_update(store_seq, updated)
                /\ UNCHANGED << store_data, stored >>
    /\ store_lock' = NoThread
    /\ Advance(t)
    /\ UNCHANGED << thKind, thRead, thOut, outstanding, fogGrid >>

\* snapshot(): "with self._lock:"
SnapshotAcquire(t) ==
    /\ Op(t) = "snapshot" /\ thSub[t] = "ready"
    /\ store_lock = NoThread
    /\ store_lock' = t
    /\ thSub' = [thSub EXCEPT ![t] = "locked"]
    /\ UNCHANGED << thKind, thPc, thRead, thOut, outstanding, store_seq, store_data,
                    fogGrid, stored >>

\* snapshot(): out = dict(cur) under the lock; the grid in it is still the
\* stored reference
SnapshotCopyData(t) ==
    /\ Op(t) = "snapshot" /\ thSub[t] = "locked"
    /\ store_lock' = NoThread
    /\ IF store_seq = 0
       THEN /\ thOut' = [thOut EXCEPT ![t] = NoSnapshot]
            /\ Advance(t)
       ELSE /\ thOut' = [thOut EXCEPT ![t] = [seq |-> store_seq, pos |-> store_data.pos,
                                             grid |-> <<>>]]
            /\ IF store_data.hasGrid
               THEN thSub' = [thSub EXCEPT ![t] = "rows"] /\ UNCHANGED thPc
               ELSE Advance(t)
    /\ UNCHANGED << thKind, thRead, outstanding, store_seq, store_data, fogGrid, stored >>

\* snapshot(): grid_copy.append(list(row)), one row of the grid at a time,
\* after the lock is released
SnapshotCopyRow(t) ==
    /\ Op(t) = "snapshot" /\ thSub[t] = "rows"
    /\ LET r == Len(thOut[t].grid) + 1
       IN  /\ thOut' = [thOut EXCEPT ![t].grid = Append(@, fogGrid[r])]
           /\ IF r + 1 \in Rows
              THEN UNCHANGED << thPc, thSub >>
              ELSE Advance(t)
    /\ UNCHANGED << thKind, thRead, outstanding, store_lock, store_seq, store_data,
                    fogGrid, stored >>

SrvNext ==
    \E t \in Threads :
        \/ StartRequest(t) /\ UNCHANGED nonSrvVars
        \/ ReturnResponse(t) /\ UNCHANGED nonSrvVars
        \/ EmuSend(t) /\ UNCHANGED nonSrvVars
        \/ EmuRecv(t) /\ UNCHANGED nonSrvVars
        \/ FogUpdate(t) /\ UNCHANGED nonSrvVars
        \/ UpdateAcquire(t) /\ UNCHANGED nonSrvVars
        \/ UpdateWrite(t) /\ UNCHANGED nonSrvVars
        \/ SnapshotAcquire(t) /\ UNCHANGED nonSrvVars
        \/ SnapshotCopyData(t) /\ UNCHANGED nonSrvVars
        \/ SnapshotCopyRow(t) /\ UNCHANGED nonSrvVars

-----------------------------------------------------------------------------
(* The savestate backup: _maybe_backup_savestate, called by every          *)
(* /requestData on its pool thread.                                        *)

MaxClock == 4           \* the clock stops here
MaxSaves == 3           \* save requests followed
interval_s == 2         \* FIRERED_SAVESTATE_BACKUP_INTERVAL_S

NoTs == -1

BkInit ==
    /\ clock = 0
    /\ LAST_SAVESTATE_BACKUP_TS = NoTs
    /\ SAVESTATE_BACKUP_LOCK = NoThread
    /\ bkPc = [t \in Threads |-> "idle"]
    /\ bkNow = [t \in Threads |-> 0]
    /\ newest_backup = NoTs
    /\ save_requests = << >>

\* time passes
Tick ==
    /\ clock < MaxClock
    /\ clock' = clock + 1
    /\ UNCHANGED << LAST_SAVESTATE_BACKUP_TS, SAVESTATE_BACKUP_LOCK, bkPc, bkNow,
                    newest_backup, save_requests >>

\* with _SAVESTATE_BACKUP_LOCK: now = time.time()
BackupEnter(t) ==
    /\ bkPc[t] = "idle"
    /\ SAVESTATE_BACKUP_LOCK = NoThread
    /\ SAVESTATE_BACKUP_LOCK' = t
    /\ bkNow' = [bkNow EXCEPT ![t] = clock]
    /\ bkPc' = [bkPc EXCEPT ![t] = "check"]
    /\ UNCHANGED << clock, LAST_SAVESTATE_BACKUP_TS, newest_backup, save_requests >>

\* the timestamp the interval test uses: a None timestamp is first taken
\* from the newest backup file
TsAfterInit(ts, newest) == IF ts = NoTs THEN newest ELSE ts

\* the interval test: the call is skipped
WithinInterval(now, ts) == ts # NoTs /\ (now - ts) < interval_s

BackupCheck(t) ==
    /\ bkPc[t] = "check"
    /\ LET ts == TsAfterInit(LAST_SAVESTATE_BACKUP_TS, newest_backup)
       IN  /\ LAST_SAVESTATE_BACKUP_TS' = ts
           /\ IF WithinInterval(bkNow[t], ts)
              THEN /\ bkPc' = [bkPc EXCEPT ![t] = "idle"]
                   /\ SAVESTATE_BACKUP_LOCK' = NoThread
              ELSE /\ bkPc' = [bkPc EXCEPT ![t] = "save"]
                   /\ UNCHANGED SAVESTATE_BACKUP_LOCK
    /\ UNCHANGED << clock, bkNow, newest_backup, save_requests >>

\* the outcomes of mgba_save_state_file + _wait_for_file_ready: the file is
\* ready ("ok"), it is written but not ready within the timeout ("late"), or
\* the request fails ("fail")
SaveOutcomes == {"ok", "late", "fail"}

\* resp = mgba_save_state_file(...); only a ready file sets the timestamp
BackupSave(t) ==
    /\ bkPc[t] = "save"
    /\ Len(save_requests) < MaxSaves
    /\ save_requests' = Append(save_requests, clock)
    /\ \E o \in SaveOutcomes :
          /\ LAST_SAVESTATE_BACKUP_TS' =
                IF o = "ok" THEN bkNow[t] ELSE LAST_SAVESTATE_BACKUP_TS
          /\ newest_backup' = IF o = "fail" THEN newest_backup ELSE clock
    /\ bkPc' = [bkPc EXCEPT ![t] = "idle"]
    /\ SAVESTATE_BACKUP_LOCK' = NoThread
    /\ UNCHANGED << clock, bkNow >>

BkNext ==
    \/ Tick /\ UNCHANGED nonBkVars
    \/ \E t \in Threads :
        \/ BackupEnter(t) /\ UNCHANGED nonBkVars
        \/ BackupCheck(t) /\ UNCHANGED nonBkVars
        \/ BackupSave(t) /\ UNCHANGED nonBkVars

-----------------------------------------------------------------------------
(* The fog of war: the update made by every snapshot build                 *)
(* (build_full_state) and the one made after every input of /sendCommands  *)
(* (update_fog_of_war_for_current_map).                                    *)

MaxFogCalls == 2        \* fog updates followed
MaxMapW == 3            \* map widths 2..MaxMapW
MaxMapH == 2            \* map heights 1..MaxMapH
ViewW == 2              \* the viewport, in tiles
ViewH == 1

MapIds == {"3-1", "3-2"}
Widths == 2..MaxMapW
Heights == 1..MaxMapH
Variants == {0, 1}      \* the map as it is, and after a scripted change

MINIMAP_CODE_WALL == 0
MINIMAP_CODE_FREE_GROUND == 1
NoneCell == -1          \* the fog cell None
NoGrid == << >>         \* no grid stored for the map
FogGlyph == "fog"

\* full_map_codes: the classifier's code of every cell of the map
full_map_codes(w, h, variant) ==
    [y \in 1..h |-> [x \in 1..w |-> (x + y + variant) % 2]]

GlyphOf(code) == IF code = MINIMAP_CODE_WALL THEN "wall" ELSE "free"

\* full_map_data: the rendered cells "x,y:glyph"
full_map_data(codes) ==
    [y \in 1..Len(codes) |->
        [x \in 1..Len(codes[y]) |->
            [coord |-> << x - 1, y - 1 >>, glyph |-> GlyphOf(codes[y][x])]]]

\* ---- the engine (fog_of_war), after section 4.10 ----

FreshGrid(w, h) == [y \in 1..h |-> [x \in 1..w |-> NoneCell]]

SameShape(g, w, h) == Len(g) = h /\ \A y \in 1..Len(g) : Len(g[y]) = w

\* every discovered cell takes the classifier's current code
refresh_discovered(g, codes) ==
    [y \in 1..Len(g) |->
        [x \in 1..Len(g[y]) |->
            IF g[y][x] = NoneCell THEN NoneCell ELSE codes[y][x]]]

\* every undiscovered cell of the rect, clamped to the map, takes its code
discover_rect(g, start_x, start_y, end_x, end_y, map_width, map_height, codes) ==
    [y \in 1..Len(g) |->
        [x \in 1..Len(g[y]) |->
            IF /\ g[y][x] = NoneCell
               /\ start_x <= x - 1 /\ x - 1 < end_x /\ x - 1 < map_width
               /\ start_y <= y - 1 /\ y - 1 < end_y /\ y - 1 < map_height
            THEN codes[y][x]
            ELSE g[y][x]]]

\* ---- the builder ----

\* an updater that forgets the grid it is given
updater_from_scratch(g, codes, start_x, start_y, end_x, end_y, map_w, map_h) ==
    discover_rect(FreshGrid(map_w, map_h), start_x, start_y, end_x, end_y,
                  map_w, map_h, codes)

\* _updater of both callers: refresh, then discover the viewport
updater(g, codes, start_x, start_y, end_x, end_y, map_w, map_h) ==
    discover_rect(refresh_discovered(g, codes), start_x, start_y, end_x, end_y,
                  map_w, map_h, codes)

\* the grid of the map (a fresh one at first sight and when the shape
\* changed) after the updater; it is stored only when persist is set
update_grid(store, map_id, width, height, persist, codes, start_x, start_y, end_x, end_y) ==
    LET old == store[map_id]
        mismatch == old # NoGrid /\ ~SameShape(old, width, height)
        base == IF old = NoGrid \/ mismatch THEN FreshGrid(width, height) ELSE old
        g == updater(base, codes, start_x, start_y, end_x, end_y, width, height)
    IN  [grid |-> g,
         store |-> IF persist THEN [store EXCEPT ![map_id] = g] ELSE store,
         shape_mismatch |-> mismatch]

\* what are_all_controls_locked reads
LockInput(fade, cb2, battle, field, menu, choice, tpa, waitAB, inDialog) ==
    [palette_fade |-> fade, change_map |-> cb2, in_battle |-> battle,
     field_locked |-> field, menuType |-> menu, choiceMenu |-> choice,
     textPrinterActive |-> tpa, waiting_a_b |-> waitAB, inDialog |-> inDialog]

LockInputs ==
    { LockInput(FALSE, FALSE, FALSE, FALSE, "", FALSE, FALSE, FALSE, FALSE),      \* walking
      LockInput(FALSE, TRUE, FALSE, TRUE, "", FALSE, FALSE, FALSE, FALSE),        \* map load
      LockInput(FALSE, FALSE, FALSE, TRUE, "dialog", FALSE, TRUE, TRUE, TRUE),    \* text box
      LockInput(TRUE, FALSE, FALSE, TRUE, "dialog", FALSE, TRUE, FALSE, TRUE),    \* fade over a text box
      LockInput(FALSE, FALSE, TRUE, FALSE, "", FALSE, FALSE, FALSE, FALSE) }      \* battle animation

are_all_controls_locked(s) ==
    LET interactive ==
            \/ s.menuType # "" /\ s.menuType # "dialog"
            \/ s.choiceMenu
            \/ s.menuType = "dialog" /\ s.textPrinterActive
    IN  IF s.palette_fade THEN TRUE
        ELSE IF s.change_map THEN TRUE
        ELSE IF s.in_battle THEN ~interactive
        ELSE IF ~s.field_locked THEN FALSE
        ELSE IF interactive THEN FALSE
        ELSE IF s.waiting_a_b THEN FALSE
        ELSE TRUE

\* the viewport origins, and the positions of the listed NPCs / BG events
Origins(w, h) == { << x, x % h >> : x \in 0..(w - 1) }
Positions(w, h) == { << x, (x + 1) % h >> : x \in 0..(w - 1) }

is_discovered_pos(fog_grid, pos) ==
    /\ 0 <= pos[2] /\ pos[2] < Len(fog_grid)
    /\ 0 <= pos[1] /\ pos[1] < Len(fog_grid[pos[2] + 1])
    /\ fog_grid[pos[2] + 1][pos[1] + 1] # NoneCell

\* the full map left as rendered
unmasked(data, fog_grid) == data

\* the rendered full map with the undiscovered cells replaced by the fog glyph
masked(data, fog_grid) ==
    [y \in 1..Len(data) |->
        [x \in 1..Len(data[y]) |->
            IF /\ y <= Len(fog_grid) /\ x <= Len(fog_grid[y])
               /\ fog_grid[y][x] = NoneCell
            THEN [coord |-> data[y][x].coord, glyph |-> FogGlyph]
            ELSE data[y][x]]]

\* the entries standing on a discovered cell
FilterSeq(seq, fog_grid) == SelectSeq(seq, LAMBDA n : is_discovered_pos(fog_grid, n))

NoFullMap == [map_data |-> << >>, npcs |-> << >>, bg_events |-> << >>,
              grid |-> << >>, fogged |-> FALSE]

NoUpdate == [caller |-> "none", map_id |-> "", locked |-> FALSE,
             in_dialog |-> FALSE, ran |-> FALSE, shape_mismatch |-> FALSE,
             changed |-> FALSE]

FogInit ==
    /\ fog_grids = [m \in MapIds |-> NoGrid]
    /\ full_map = NoFullMap
    /\ fog_last = NoUpdate
    /\ fog_calls = 0

\* build_full_state: the fog update and the full map of the snapshot
BuildFullState ==
    /\ fog_calls < MaxFogCalls
    /\ \E map_id \in MapIds, map_w \in Widths, map_h \in Heights, variant \in Variants :
       \E npc \in Positions(map_w, map_h) :
          LET codes == full_map_codes(map_w, map_h, variant)
              data == full_map_data(codes)
              npcs == << npc >>
              bg_events == << << map_w - 1 - npc[1], npc[2] >> >>
          IN  \/ \* the fog update raises: fog_grid = None
                 /\ fog_grids' = fog_grids
                 /\ full_map' = [map_data |-> data, npcs |-> npcs,
                                 bg_events |-> bg_events, grid |-> codes,
                                 fogged |-> FALSE]
                 /\ fog_last' = [caller |-> "build", map_id |-> map_id,
                                 locked |-> FALSE, in_dialog |-> FALSE,
                                 ran |-> FALSE, shape_mismatch |-> FALSE,
                                 changed |-> FALSE]
              \/ \E lk \in LockInputs, origin \in Origins(map_w, map_h) :
                    LET all_controls_locked == are_all_controls_locked(lk)
                        upd == update_grid(fog_grids, map_id, map_w, map_h,
                                           ~all_controls_locked, codes,
                                           origin[1], origin[2],
                                           origin[1] + ViewW, origin[2] + ViewH)
                    IN  /\ fog_grids' = upd.store
                        /\ full_map' =
                             [map_data |-> masked(data, upd.grid),
                              npcs |-> FilterSeq(npcs, upd.grid),
                              bg_events |-> FilterSeq(bg_events, upd.grid),
                              grid |-> upd.grid,
                              fogged |-> TRUE]
                        /\ fog_last' = [caller |-> "build", map_id |-> map_id,
                                        locked |-> all_controls_locked,
                                        in_dialog |-> lk.inDialog, ran |-> TRUE,
                                        shape_mismatch |-> upd.shape_mismatch,
                                        changed |-> upd.store # fog_grids]
    /\ fog_calls' = fog_calls + 1

\* the per-step update is skipped
skip_never(locked, in_dialog) == FALSE
skip_fog_update(locked, in_dialog) == locked /\ ~in_dialog

\* update_fog_of_war_for_current_map, called after a press / hold / control
UpdateFogForStep ==
    /\ fog_calls < MaxFogCalls
    /\ \E map_id \in MapIds, map_w \in Widths, map_h \in Heights,
          variant \in Variants, lk \in LockInputs :
       \E origin \in Origins(map_w, map_h) :
          LET locked == are_all_controls_locked(lk)
              codes == full_map_codes(map_w, map_h, variant)
              upd == update_grid(fog_grids, map_id, map_w, map_h, TRUE, codes,
                                 origin[1], origin[2],
                                 origin[1] + ViewW, origin[2] + ViewH)
          IN  IF skip_fog_update(locked, lk.inDialog)
              THEN /\ fog_grids' = fog_grids
                   /\ fog_last' = [caller |-> "step", map_id |-> map_id,
                                   locked |-> locked, in_dialog |-> lk.inDialog,
                                   ran |-> FALSE, shape_mismatch |-> FALSE,
                                   changed |-> FALSE]
              ELSE /\ fog_grids' = upd.store
                   /\ fog_last' = [caller |-> "step", map_id |-> map_id,
                                   locked |-> locked, in_dialog |-> lk.inDialog,
                                   ran |-> TRUE,
                                   shape_mismatch |-> upd.shape_mismatch,
                                   changed |-> upd.store # fog_grids]
    /\ fog_calls' = fog_calls + 1
    /\ UNCHANGED full_map

FogNext ==
    \/ BuildFullState /\ UNCHANGED nonFogVars
    \/ UpdateFogForStep /\ UNCHANGED nonFogVars

-----------------------------------------------------------------------------
(* The BG-event reader: get_current_map_bg_events.                         *)

MaxBgEvents == 2        \* BG events of a map

BG_EVENT_SIZE == 12
BG_EVENT_ELEVATION_OFFSET == 4
BG_EVENT_KIND_OFFSET == 5
BG_EVENT_SCRIPT_POINTER_OFFSET == 8
BG_EVENT_KIND_SCRIPT == 0
BG_EVENT_KIND_HIDDEN_ITEM == 7
BG_EVENT_KIND_SECRET_BASE == 8

\* little-endian reads of a byte string, offsets from 0
u8_from(raw, off) == raw[off + 1]
u16le_from(raw, off) == raw[off + 1] + 256 * raw[off + 2]
u32le_from(raw, off) ==
    raw[off + 1] + 256 * raw[off + 2] + 65536 * raw[off + 3] + 16777216 * raw[off + 4]

\* the kinds a map's BG events are drawn from
BgKinds == {0, 5, 6, 7, 8}
\* the 12 bytes of the BgEvent at x, of a kind, with a script pointer byte
BgEventBytes(x, kind, script) ==
    << x, 0, 0, 0, 3, kind, 0, 0, script, 0, 0, 8 >>
RECURSIVE Concat(_)
Concat(seqs) == IF seqs = << >> THEN << >> ELSE Head(seqs) \o Concat(Tail(seqs))
\* the BgEvent array of a map whose events have the given kinds
BgEventsBytes(kinds) ==
    Concat([i \in 1..Len(kinds) |-> BgEventBytes(i, kinds[i], kinds[i] + 1)])

EventsBases == {0, 1, 2}    \* _get_map_events_base: 0 is "no events"
\* a cache slot: absent, or the list stored
NoCache == [present |-> FALSE, events |-> << >>]
Cached(events) == [present |-> TRUE, events |-> events]
NoneAddr == -1              \* scriptAddr None

\* only the dedicated kind is left out
is_dedicated_hidden_kind(kind) == kind = BG_EVENT_KIND_HIDDEN_ITEM
\* kind in (5, 6, BG_EVENT_KIND_HIDDEN_ITEM)
is_hidden_item_kind(kind) == kind \in {5, 6, BG_EVENT_KIND_HIDDEN_ITEM}

\* the loop over the bg_count events of raw
RECURSIVE bg_events_from(_, _, _)
bg_events_from(raw, i, bg_count) ==
    IF i >= bg_count THEN << >>
    ELSE LET off == i * BG_EVENT_SIZE
             x == u16le_from(raw, off + 0)
             y == u16le_from(raw, off + 2)
             elevation == u8_from(raw, off + BG_EVENT_ELEVATION_OFFSET)
             kind == u8_from(raw, off + BG_EVENT_KIND_OFFSET)
             script_addr == IF kind = BG_EVENT_KIND_SCRIPT
                            THEN u32le_from(raw, off + BG_EVENT_SCRIPT_POINTER_OFFSET)
                            ELSE 0
             event_type == IF kind = BG_EVENT_KIND_SECRET_BASE
                           THEN "secret_base" ELSE "interactive"
             rest == bg_events_from(raw, i + 1, bg_count)
         IN  IF is_hidden_item_kind(kind) THEN rest
             ELSE << [position |-> << x, y >>, type |-> event_type,
                      elevation |-> elevation,
                      scriptAddr |-> IF script_addr # 0 THEN script_addr ELSE NoneAddr,
                      kind |-> kind] >> \o rest

\* ---- get_current_map_connections ----

MaxConnections == 2     \* connections of a map

MAP_CONNECTION_SIZE == 12
MAP_CONNECTION_DIRECTION_OFFSET == 0
MAP_CONNECTION_MAP_GROUP_OFFSET == 8
MAP_CONNECTION_MAP_NUM_OFFSET == 9
MaxConnectionCount == 32
TooManyConnections == 33

ConnectionsPtrs == {0, 1, 2}    \* _get_map_connections_ptr: 0 is "no table"
\* the direction bytes of a map's connections: south, north, west, east, dive
ConnDirections == {1, 2, 3, 4, 5}
FACING_DIRECTION_MAP == [d \in {1, 2, 3, 4} |->
    IF d = 1 THEN "down" ELSE IF d = 2 THEN "up" ELSE IF d = 3 THEN "left" ELSE "right"]
\* the 12 bytes of a connection: the offset is -1 for west and east, 1 otherwise
ConnectionBytes(direction) ==
    << direction, 0, 0, 0 >>
    \o (IF direction \in {3, 4} THEN << 255, 255, 255, 255 >> ELSE << 1, 0, 0, 0 >>)
    \o << 3, direction, 0, 0 >>
ConnectionsBytes(directions) ==
    Concat([i \in 1..Len(directions) |-> ConnectionBytes(directions[i])])

\* the loop over the connections of raw
RECURSIVE connections_from(_, _, _)
connections_from(raw, i, count) ==
    IF i >= count THEN << >>
    ELSE LET off == i * MAP_CONNECTION_SIZE
             direction_raw == u8_from(raw, off + MAP_CONNECTION_DIRECTION_OFFSET)
             direction == IF direction_raw \in DOMAIN FACING_DIRECTION_MAP
                          THEN FACING_DIRECTION_MAP[direction_raw] ELSE "unknown"
             dest_group == u8_from(raw, off + MAP_CONNECTION_MAP_GROUP_OFFSET)
             dest_num == u8_from(raw, off + MAP_CONNECTION_MAP_NUM_OFFSET)
             \* off_raw - 0x100000000 if off_raw > 0x7FFFFFFF else off_raw, by
             \* the top byte
             off_low == raw[off + 5] + 256 * raw[off + 6] + 65536 * raw[off + 7]
             off_top == raw[off + 8]
             off_val == IF off_top > 127
                        THEN off_low + (off_top - 256) * 16777216
                        ELSE off_low + off_top * 16777216
         IN  << [direction |-> direction, mapName |-> << dest_group, dest_num >>,
                 offset |-> off_val] >>
             \o connections_from(raw, i + 1, count)

\* the entries appended for the directions not present; the code walks a set,
\* the order taken here is one of its orders
RECURSIVE with_missing_directions(_, _)
with_missing_directions(out, dirs) ==
    IF dirs = << >> THEN out
    ELSE with_missing_directions(
            IF \E i \in 1..Len(out) : out[i].direction = Head(dirs)
            THEN out
            ELSE Append(out, [direction |-> Head(dirs), mapName |-> "MAP_NONE",
                              offset |-> 0]),
            Tail(dirs))

\* get_current_map_connections, the memory holding the given connections
GetCurrentMapConnections ==
    \E ptr \in ConnectionsPtrs, directions \in SeqsUpTo(ConnDirections, MaxConnections),
       read \in {"ok", "no_count", "no_ptr", "zero_ptr", "short", "too_many"} :
        LET count == IF read = "too_many" THEN TooManyConnections ELSE Len(directions)
            total_bytes == count * MAP_CONNECTION_SIZE
            full == ConnectionsBytes(directions)
            raw == IF read = "short" THEN SubSeq(full, 1, Len(full) - 1) ELSE full
            out == with_missing_directions(connections_from(raw, 0, count),
                                           << "up", "down", "left", "right" >>)
            hit == ptr # 0 /\ CONNECTIONS_CACHE[ptr].present
            computed == /\ ptr # 0 /\ ~hit
                        /\ read \in {"ok", "short"}
                        /\ count > 0 /\ count <= MaxConnectionCount
                        /\ Len(raw) >= total_bytes
        IN  /\ conn_last' = [called |-> TRUE, ptr |-> ptr, hit |-> hit,
                             count |-> IF ptr = 0 \/ hit THEN 0 ELSE count]
            /\ conn_ret' = IF hit THEN CONNECTIONS_CACHE[ptr].events
                           ELSE IF computed THEN out
                           ELSE << >>
            /\ CONNECTIONS_CACHE' = IF computed
                                    THEN [CONNECTIONS_CACHE EXCEPT ![ptr] = Cached(out)]
                                    ELSE CONNECTIONS_CACHE

EvInit ==
    /\ BG_EVENTS_CACHE = [b \in EventsBases \ {0} |-> NoCache]
    /\ bg_ret = << >>
    /\ bg_last = [base |-> 0, hit |-> FALSE]
    /\ CONNECTIONS_CACHE = [q \in ConnectionsPtrs \ {0} |-> NoCache]
    /\ conn_ret = << >>
    /\ conn_last = [called |-> FALSE, ptr |-> 0, hit |-> FALSE, count |-> 0]

\* get_current_map_bg_events, the memory holding the events of the given kinds
GetCurrentMapBgEvents ==
    \E base_events \in EventsBases, kinds \in SeqsUpTo(BgKinds, MaxBgEvents),
       read \in {"ok", "no_count", "no_ptr", "zero_ptr", "short"} :
        /\ bg_last' = [base |-> base_events,
                       hit |-> base_events # 0 /\ BG_EVENTS_CACHE[base_events].present]
        /\ IF base_events = 0
           THEN bg_ret' = << >> /\ UNCHANGED BG_EVENTS_CACHE
           ELSE IF BG_EVENTS_CACHE[base_events].present
           THEN bg_ret' = BG_EVENTS_CACHE[base_events].events /\ UNCHANGED BG_EVENTS_CACHE
           ELSE IF read \in {"no_count", "no_ptr"}
           THEN bg_ret' = << >> /\ UNCHANGED BG_EVENTS_CACHE
           ELSE LET bg_count == Len(kinds)
                    total_bytes == bg_count * BG_EVENT_SIZE
                    full == BgEventsBytes(kinds)
                    raw == IF read = "short"
                           THEN SubSeq(full, 1, Len(full) - 1) ELSE full
                IN  IF bg_count = 0
                    THEN /\ bg_ret' = << >>
                         /\ BG_EVENTS_CACHE' =
                                [BG_EVENTS_CACHE EXCEPT ![base_events] = Cached(<< >>)]
                    ELSE IF read = "zero_ptr" \/ Len(raw) < total_bytes
                    THEN bg_ret' = << >> /\ UNCHANGED BG_EVENTS_CACHE
                    ELSE LET out == bg_events_from(raw, 0, bg_count)
                         IN  /\ bg_ret' = out
                             /\ BG_EVENTS_CACHE' =
                                    [BG_EVENTS_CACHE EXCEPT ![base_events] = Cached(out)]

EvNext ==
    /\ GetCurrentMapBgEvents
    /\ UNCHANGED << CONNECTIONS_CACHE, conn_ret, conn_last >>
    /\ UNCHANGED nonEvVars

ConnNext ==
    /\ GetCurrentMapConnections
    /\ UNCHANGED << BG_EVENTS_CACHE, bg_ret, bg_last >>
    /\ UNCHANGED nonEvVars

-----------------------------------------------------------------------------
(* The decoders, applied to given memory.                                  *)

NoCall == [fn |-> "none"]
FnInit == arg = NoCall /\ ret = NoCall

\* min / max of two integers
Min(a, b) == IF a < b THEN a ELSE b
Max(a, b) == IF a > b THEN a ELSE b

-----------------------------------------------------------------------------
(* The classifier: process_tiles_to_collision_map.                         *)

MaxTiles == 3           \* cells of the grid classified

MAPGRID_UNDEFINED == 1023
MAPGRID_METATILE_ID_MASK == 1023
MAPGRID_COLLISION_MASK == 3072
MAPGRID_ELEVATION_MASK == 61440

\* val & mask for a mask of adjacent bits, lowest bit of value low
MaskBits(val, mask, low) == ((val % (mask + low)) \div low) * low

\* the behavior ids the tables of constants/behaviors.py hold
GRASS_BEHAVIOR_IDS == {2}
SURFABLE_WATER_BEHAVIOR_IDS == {16, 17, 19, 80}
DIVEABLE_WATER_BEHAVIOR_IDS == {17}
RED_CARPET_BEHAVIOR_IDS == {101}
THIN_ICE_BEHAVIOR_IDS == {35}
CRACKED_ICE_BEHAVIOR_IDS == {39}
CRACKED_FLOOR_BEHAVIOR_IDS == {}
WATERFALL_BEHAVIOR_ID == 19
LEDGE_BEHAVIOR_ID_TO_TILE == [b \in {56} |-> "LedgeEast"]
WATER_CURRENT_BEHAVIOR_ID_TO_TILE == [b \in {80} |-> "WaterCurrentRight"]
DIRECTIONAL_IMPASSABLE_BEHAVIOR_ID_TO_TILE == [b \in {48} |-> "WalkableBlockEast"]
STRENGTH_SWITCH_BEHAVIOR_ID_TO_TILE == [b \in {32} |-> "StrengthSwitch"]
SPINNER_BEHAVIOR_ID_TO_TILE == [b \in {84} |-> "SpinnerRight"]
FORCED_MOVEMENT_ARROW_BEHAVIOR_ID_TO_TILE == [b \in {64} |-> "ArrowRight"]

TILE_BLOCKED == "Wall"
TILE_WALKABLE == "Walkable"
TILE_WATERFALL == "Waterfall"
TILE_WATER == "Water"
TILE_DIVE_WATER == "DiveWater"
TILE_GRASS == "Grass"
TILE_RED_CARPET == "RedCarpet"
TILE_STRENGTH_SWITCH == "StrengthSwitch"
TILE_THIN_ICE == "ThinIce"
TILE_CRACKED_ICE == "CrackedIce"
TILE_CRACKED_FLOOR == "CrackedFloor"

\* a mapgrid value of a metatile id, collision bits and an elevation
TileValue(id, coll, elev) == id + 1024 * coll + 4096 * elev

\* the metatile ids the grids use; a behaviors list is given by its length and
\* its entries at these ids
UsedMetatileIds == {0, 1, MAPGRID_UNDEFINED}
Behaviors(len, b1, bUndef) ==
    [len |-> len, at |-> [id \in UsedMetatileIds |->
                            IF id = 1 THEN b1 ELSE IF id = 0 THEN 0 ELSE bUndef]]

\* only the low collision bit
collision_bit_low(val) == MaskBits(val, 1024, 1024) \div 1024
\* (val & MAPGRID_COLLISION_MASK) >> 10
collision_bits_of(val) == MaskBits(val, MAPGRID_COLLISION_MASK, 1024) \div 1024
\* (val & MAPGRID_ELEVATION_MASK) >> 12, 15 standing for the player's elevation
elev_of(val, player_elev) ==
    LET elev == MaskBits(val, MAPGRID_ELEVATION_MASK, 4096) \div 4096
    IN  IF elev = 15 THEN player_elev ELSE elev
metatile_id_of(val) == MaskBits(val, MAPGRID_METATILE_ID_MASK, 1)
\* behaviors[metatile_id] when the list has it, else -1
beh_id_of(val, behaviors) ==
    IF behaviors.len > 0 /\ metatile_id_of(val) < behaviors.len
    THEN behaviors.at[metatile_id_of(val)] ELSE -1

\* the first pass: the arrays, indexed from 0
present(tile_values, total_cells, i) == i < Min(Len(tile_values), total_cells)
collision_bits_arr(tile_values, total_cells, i) ==
    IF present(tile_values, total_cells, i)
    THEN collision_bits_of(tile_values[i + 1]) ELSE 0
elev_arr(tile_values, total_cells, player_elev, i) ==
    IF present(tile_values, total_cells, i)
    THEN elev_of(tile_values[i + 1], player_elev) ELSE 0

\* a present neighbour at the player's elevation without collision
neighbour_same_elev(tile_values, total_cells, player_elev, ni) ==
    /\ present(tile_values, total_cells, ni)
    /\ elev_arr(tile_values, total_cells, player_elev, ni) = player_elev
    /\ collision_bits_arr(tile_values, total_cells, ni) = 0

\* the passability determination of cell (x, y)
base_tile_type(tile_values, width, height, behaviors, player_elev, player_surf, x, y) ==
    LET total_cells == width * height
        i == y * width + x
        val == tile_values[i + 1]
        beh_id == beh_id_of(val, behaviors)
        coll == collision_bits_arr(tile_values, total_cells, i)
        elev == elev_arr(tile_values, total_cells, player_elev, i)
        adj_same_elev ==
            \/ y > 0 /\ neighbour_same_elev(tile_values, total_cells, player_elev, i - width)
            \/ (y + 1) < height /\ (i + width) < total_cells
                 /\ neighbour_same_elev(tile_values, total_cells, player_elev, i + width)
            \/ x > 0 /\ neighbour_same_elev(tile_values, total_cells, player_elev, i - 1)
            \/ (x + 1) < width /\ (i + 1) < total_cells
                 /\ neighbour_same_elev(tile_values, total_cells, player_elev, i + 1)
    IN  IF val = MAPGRID_UNDEFINED THEN TILE_BLOCKED
        ELSE IF beh_id \in DOMAIN LEDGE_BEHAVIOR_ID_TO_TILE
        THEN LEDGE_BEHAVIOR_ID_TO_TILE[beh_id]
        ELSE IF beh_id # -1 /\ beh_id = WATERFALL_BEHAVIOR_ID THEN TILE_WATERFALL
        ELSE IF coll # 0 THEN TILE_BLOCKED
        ELSE IF elev = 0 THEN TILE_WALKABLE
        ELSE IF player_elev = 0 THEN TILE_WALKABLE
        ELSE IF elev = player_elev THEN TILE_WALKABLE
        ELSE IF elev = 3 /\ player_surf THEN TILE_WALKABLE
        ELSE IF adj_same_elev THEN TILE_BLOCKED ELSE TILE_WALKABLE

\* the extra classification by behavior
classified_tile_type(tile_type, coll, beh_id) ==
    IF coll = 0 /\ beh_id \in DOMAIN WATER_CURRENT_BEHAVIOR_ID_TO_TILE
    THEN WATER_CURRENT_BEHAVIOR_ID_TO_TILE[beh_id]
    ELSE IF coll = 0 /\ beh_id \in DIVEABLE_WATER_BEHAVIOR_IDS THEN TILE_DIVE_WATER
    ELSE IF coll = 0 /\ beh_id \in SURFABLE_WATER_BEHAVIOR_IDS THEN TILE_WATER
    ELSE IF tile_type = TILE_WALKABLE
            /\ beh_id \in DOMAIN DIRECTIONAL_IMPASSABLE_BEHAVIOR_ID_TO_TILE
    THEN DIRECTIONAL_IMPASSABLE_BEHAVIOR_ID_TO_TILE[beh_id]
    ELSE IF tile_type = TILE_WALKABLE /\ beh_id \in GRASS_BEHAVIOR_IDS THEN TILE_GRASS
    ELSE IF tile_type = TILE_WALKABLE /\ beh_id \in RED_CARPET_BEHAVIOR_IDS
    THEN TILE_RED_CARPET
    ELSE IF tile_type = TILE_WALKABLE
            /\ beh_id \in DOMAIN STRENGTH_SWITCH_BEHAVIOR_ID_TO_TILE
    THEN TILE_STRENGTH_SWITCH
    ELSE IF tile_type = TILE_WALKABLE /\ beh_id \in DOMAIN SPINNER_BEHAVIOR_ID_TO_TILE
    THEN SPINNER_BEHAVIOR_ID_TO_TILE[beh_id]
    ELSE IF tile_type = TILE_WALKABLE
            /\ beh_id \in DOMAIN FORCED_MOVEMENT_ARROW_BEHAVIOR_ID_TO_TILE
    THEN FORCED_MOVEMENT_ARROW_BEHAVIOR_ID_TO_TILE[beh_id]
    ELSE IF tile_type = TILE_WALKABLE /\ beh_id \in THIN_ICE_BEHAVIOR_IDS THEN TILE_THIN_ICE
    ELSE IF tile_type = TILE_WALKABLE /\ beh_id \in CRACKED_ICE_BEHAVIOR_IDS
    THEN TILE_CRACKED_ICE
    ELSE IF tile_type = TILE_WALKABLE /\ beh_id \in CRACKED_FLOOR_BEHAVIOR_IDS
    THEN TILE_CRACKED_FLOOR
    ELSE tile_type

\* map_data: the tag of every cell, row by row; a cell without a value is Wall
process_tiles_to_collision_map(tile_values, width, behaviors, player_elev, player_surf) ==
    LET num_tiles == Len(tile_values)
        height == (num_tiles + width - 1) \div width
        total_cells == width * height
    IN  IF width <= 0 THEN << >>
        ELSE [yy \in 1..height |->
                [xx \in 1..width |->
                    LET x == xx - 1
                        y == yy - 1
                        i == y * width + x
                    IN  IF i >= total_cells \/ ~present(tile_values, total_cells, i)
                        THEN TILE_BLOCKED
                        ELSE classified_tile_type(
                                base_tile_type(tile_values, width, height, behaviors,
                                               player_elev, player_surf, x, y),
                                collision_bits_arr(tile_values, total_cells, i),
                                beh_id_of(tile_values[i + 1], behaviors))]]

\* the grids, tilesets and players the classifier is applied to
TileValues ==
    { TileValue(1, 0, 3), TileValue(1, 1, 3), TileValue(0, 2, 4),
      TileValue(0, 0, 4), TileValue(1, 0, 15), MAPGRID_UNDEFINED }
BehaviorIds == {0, 2, 16, 19, 56}
BehaviorLists ==
    { Behaviors(0, 0, 0) }
    \cup { Behaviors(2, b, 0) : b \in BehaviorIds }
    \cup { Behaviors(1024, b, u) : b \in BehaviorIds, u \in {0, 16, 56} }
CollisionArgs ==
    [fn : {"process_tiles_to_collision_map"},
     tile_values : SeqsUpTo(TileValues, MaxTiles) \ {<< >>},
     width : {1, 2},
     behaviors : BehaviorLists,
     player_elev : {0, 3, 4},
     player_surf : BOOLEAN]

InitCollision == arg \in CollisionArgs /\ ret = NoCall

ProcessTiles ==
    /\ arg.fn = "process_tiles_to_collision_map" /\ ret = NoCall
    /\ ret' = [fn |-> arg.fn,
               map_data |-> process_tiles_to_collision_map(
                                arg.tile_values, arg.width, arg.behaviors,
                                arg.player_elev, arg.player_surf)]
    /\ UNCHANGED arg

-----------------------------------------------------------------------------
(* The map reader: _read_map_tiles_and_behaviors_fast, main grid from the  *)
(* backup grid.                                                            *)

MaxMainDim == 2         \* main_w, main_h up to this
BackupSlack == 1        \* backup dimensions up to this above the required ones

MAP_OFFSET == 7

\* None, or the list derived
NotDerived == [derived |-> FALSE, tiles |-> << >>]
Derived(tiles) == [derived |-> TRUE, tiles |-> tiles]

\* a required width without the extra column
required_w_without_column(main_w) == main_w + (MAP_OFFSET * 2)
required_w_of(main_w) == main_w + (MAP_OFFSET * 2 + 1)
required_h_of(main_h) == main_h + (MAP_OFFSET * 2)

\* backup_tiles[start:end]
Slice(seq, start, end) ==
    IF Min(end, Len(seq)) <= start THEN << >>
    ELSE SubSeq(seq, start + 1, Min(end, Len(seq)))

\* the rows y..main_h-1 of the main map cut out of the backup grid; None when
\* a row does not fit
RECURSIVE derive_rows(_, _, _, _, _)
derive_rows(y, main_w, main_h, backup_w, backup_tiles) ==
    IF y >= main_h THEN Derived(<< >>)
    ELSE LET by == y + MAP_OFFSET
             start == (by * backup_w) + MAP_OFFSET
             end == start + main_w
             rest == derive_rows(y + 1, main_w, main_h, backup_w, backup_tiles)
         IN  IF start < 0 \/ end > Len(backup_tiles) THEN NotDerived
             ELSE IF ~rest.derived THEN NotDerived
             ELSE Derived(Slice(backup_tiles, start, end) \o rest.tiles)

derive_main_tiles_from_backup(main_w, main_h, backup_w, backup_h, backup_tiles) ==
    IF main_w <= 0 \/ main_h <= 0 \/ backup_w <= 0 \/ backup_h <= 0
       \/ backup_tiles = << >>
    THEN NotDerived
    ELSE IF backup_w < required_w_of(main_w) \/ backup_h < required_h_of(main_h)
    THEN NotDerived
    ELSE IF Len(backup_tiles) < (backup_w * backup_h) THEN NotDerived
    ELSE LET out == derive_rows(0, main_w, main_h, backup_w, backup_tiles)
         IN  IF ~out.derived THEN NotDerived
             ELSE IF Len(out.tiles) # (main_w * main_h) THEN NotDerived
             ELSE out

\* the grids read from memory: cell k of the main grid holds k, cell k of the
\* backup grid 1000 + k
MainTiles(main_w, main_h) == [k \in 1..(Max(main_w, 0) * Max(main_h, 0)) |-> k]
BackupTiles(n) == [k \in 1..Max(n, 0) |-> 1000 + k]

MapReadArgs ==
    { [fn |-> "read_map_tiles", main_w |-> mw, main_h |-> mh,
       backup_w |-> bw, backup_h |-> bh,
       main_tiles |-> MainTiles(mw, mh),
       backup_tiles |-> BackupTiles(bw * bh - missing)] :
        mw \in 0..MaxMainDim, mh \in 0..MaxMainDim,
        bw \in (MAP_OFFSET * 2)..(MaxMainDim + MAP_OFFSET * 2 + 1 + BackupSlack),
        bh \in (MAP_OFFSET * 2)..(MaxMainDim + MAP_OFFSET * 2 + BackupSlack),
        missing \in {0, 1} }

InitMapRead == arg \in MapReadArgs /\ ret = NoCall

\* main_tiles = derived_main if it is not None
ReadMapTiles ==
    /\ arg.fn = "read_map_tiles" /\ ret = NoCall
    /\ LET derived_main == derive_main_tiles_from_backup(
                              arg.main_w, arg.main_h, arg.backup_w, arg.backup_h,
                              arg.backup_tiles)
       IN  ret' = [fn |-> arg.fn,
                   derived |-> derived_main.derived,
                   main_tiles |-> IF derived_main.derived
                                  THEN derived_main.tiles ELSE arg.main_tiles]
    /\ UNCHANGED arg

-----------------------------------------------------------------------------
(* The party reader: _get_party_data_fast_from_raw and get_party_count.    *)

MaxPartyBytes == 600    \* the longest party buffer read

PARTY_SIZE == 6
POKEMON_DATA_SIZE == 100
PID_OFFSET == 0
OTID_OFFSET == 4
ENCRYPTED_BLOCK_OFFSET == 32
ENCRYPTED_BLOCK_SIZE == 48
SUBSTRUCTURE_SIZE == 12
LEVEL_OFFSET == 84
SPECIES_NONE == 0

SUBSTRUCTURE_ORDER ==
    << "GAEM", "GAME", "GEAM", "GEMA", "GMAE", "GMEA",
       "AGEM", "AGME", "AEGM", "AEMG", "AMGE", "AMEG",
       "EGAM", "EGMA", "EAGM", "EAMG", "EMGA", "EMAG",
       "MGAE", "MGEA", "MAGE", "MAEG", "MEGA", "MEAG" >>
\* the letters of an order
OrderLetters ==
    [o \in {SUBSTRUCTURE_ORDER[k] : k \in 1..24} |->
        CASE o = "GAEM" -> << "G", "A", "E", "M" >> [] o = "GAME" -> << "G", "A", "M", "E" >>
          [] o = "GEAM" -> << "G", "E", "A", "M" >> [] o = "GEMA" -> << "G", "E", "M", "A" >>
          [] o = "GMAE" -> << "G", "M", "A", "E" >> [] o = "GMEA" -> << "G", "M", "E", "A" >>
          [] o = "AGEM" -> << "A", "G", "E", "M" >> [] o = "AGME" -> << "A", "G", "M", "E" >>
          [] o = "AEGM" -> << "A", "E", "G", "M" >> [] o = "AEMG" -> << "A", "E", "M", "G" >>
          [] o = "AMGE" -> << "A", "M", "G", "E" >> [] o = "AMEG" -> << "A", "M", "E", "G" >>
          [] o = "EGAM" -> << "E", "G", "A", "M" >> [] o = "EGMA" -> << "E", "G", "M", "A" >>
          [] o = "EAGM" -> << "E", "A", "G", "M" >> [] o = "EAMG" -> << "E", "A", "M", "G" >>
          [] o = "EMGA" -> << "E", "M", "G", "A" >> [] o = "EMAG" -> << "E", "M", "A", "G" >>
          [] o = "MGAE" -> << "M", "G", "A", "E" >> [] o = "MGEA" -> << "M", "G", "E", "A" >>
          [] o = "MAGE" -> << "M", "A", "G", "E" >> [] o = "MAEG" -> << "M", "A", "E", "G" >>
          [] o = "MEGA" -> << "M", "E", "G", "A" >> [] o = "MEAG" -> << "M", "E", "A", "G" >>]

\* a ^ b on naturals
RECURSIVE Xor(_, _)
Xor(a, b) ==
    IF a = 0 THEN b
    ELSE IF b = 0 THEN a
    ELSE (((a % 2) + (b % 2)) % 2) + 2 * Xor(a \div 2, b \div 2)

\* the four little-endian bytes of a word below 2^31
Bytes4(n) == << n % 256, (n \div 256) % 256, (n \div 65536) % 256, n \div 16777216 >>
Zeros(n) == [k \in 1..n |-> 0]

\* ---- memory: the 100 bytes of a party slot, as the game writes them ----
\* the substructures of a mon
PlainSub(letter, species, item) ==
    IF letter = "G" THEN << species % 256, species \div 256, item % 256, item \div 256 >>
                         \o Zeros(8)
    ELSE IF letter = "A" THEN << 33, 0 >> \o Zeros(6) \o << 35, 0, 0, 0 >>
    ELSE Zeros(12)
\* the 48 bytes in the order of the mon's pid, each word xor-ed with pid ^ otid
EncryptedBlock(pid, otid, species, item) ==
    LET letters == OrderLetters[SUBSTRUCTURE_ORDER[(pid % 24) + 1]]
        plain == PlainSub(letters[1], species, item) \o PlainSub(letters[2], species, item)
                 \o PlainSub(letters[3], species, item) \o PlainSub(letters[4], species, item)
        key == Bytes4(Xor(pid, otid))
    IN  [k \in 1..ENCRYPTED_BLOCK_SIZE |-> Xor(plain[k], key[((k - 1) % 4) + 1])]
SlotBytes(mon) ==
    Bytes4(mon.pid) \o Bytes4(mon.otid) \o Zeros(24)
    \o EncryptedBlock(mon.pid, mon.otid, mon.species, mon.item)
    \o Zeros(4) \o << mon.level >> \o Zeros(15)
PartyBytes(mons) == Concat([k \in 1..Len(mons) |-> SlotBytes(mons[k])])

\* ---- the decoder ----
\* int.from_bytes(b[start:end], "little"), start / end from 0
int_from_bytes(raw, start, end) ==
    LET RECURSIVE le(_)
        le(k) == IF k >= end \/ k >= Len(raw) THEN 0 ELSE raw[k + 1] + 256 * le(k + 1)
    IN  le(start)

\* dec: every word of enc xor-ed with key
decrypt_block(enc, key) ==
    LET kb == Bytes4(key)
    IN  [k \in 1..Len(enc) |-> Xor(enc[k], kb[((k - 1) % 4) + 1])]

\* unshuffle_substructures: the 12 bytes of the substructure of a letter
unshuffle_substructures(decrypted, pid, letter) ==
    LET order == OrderLetters[SUBSTRUCTURE_ORDER[(pid % 24) + 1]]
        i == (CHOOSE k \in 1..4 : order[k] = letter) - 1
    IN  SubSeq(decrypted, i * SUBSTRUCTURE_SIZE + 1, (i + 1) * SUBSTRUCTURE_SIZE)

\* the held item read where the species is
held_item_id_from_growth(growth) == int_from_bytes(growth, 2, 4)
get_species_id_from_growth(growth) == int_from_bytes(growth, 0, 2)

\* the species of the slot at base
species_at(raw, base) ==
    LET pid == int_from_bytes(raw, base + PID_OFFSET, base + PID_OFFSET + 4)
        otid == int_from_bytes(raw, base + OTID_OFFSET, base + OTID_OFFSET + 4)
        enc == SubSeq(raw, base + ENCRYPTED_BLOCK_OFFSET + 1,
                      base + ENCRYPTED_BLOCK_OFFSET + ENCRYPTED_BLOCK_SIZE)
        dec == decrypt_block(enc, Xor(pid, otid))
    IN  get_species_id_from_growth(unshuffle_substructures(dec, pid, "G"))

\* the loop of _get_party_data_fast_from_raw from a slot on
RECURSIVE party_from(_, _)
party_from(raw, slot) ==
    LET base == slot * POKEMON_DATA_SIZE
        pid == int_from_bytes(raw, base + PID_OFFSET, base + PID_OFFSET + 4)
        otid == int_from_bytes(raw, base + OTID_OFFSET, base + OTID_OFFSET + 4)
        species_id == species_at(raw, base)
    IN  IF slot >= PARTY_SIZE THEN << >>
        ELSE IF (base + POKEMON_DATA_SIZE) > Len(raw) THEN << >>
        ELSE IF pid = 0 THEN << >>
        ELSE IF species_id = SPECIES_NONE THEN << >>
        ELSE << [pid |-> pid, otid |-> otid, speciesId |-> species_id,
                 level |-> raw[base + LEVEL_OFFSET + 1]] >>
             \o party_from(raw, slot + 1)

get_party_data_fast_from_raw(raw) ==
    IF raw = << >> \/ Len(raw) < POKEMON_DATA_SIZE THEN << >>
    ELSE party_from(SubSeq(raw, 1, Min(Len(raw), PARTY_SIZE * POKEMON_DATA_SIZE)), 0)

\* get_party_count over the party in memory
RECURSIVE party_count_from(_, _)
party_count_from(mem, count) ==
    IF count >= PARTY_SIZE THEN count
    ELSE LET base == count * POKEMON_DATA_SIZE
         IN  IF int_from_bytes(mem, base + PID_OFFSET, base + PID_OFFSET + 4) = 0
             THEN count
             ELSE IF species_at(mem, base) = SPECIES_NONE THEN count
             ELSE party_count_from(mem, count + 1)
get_party_count(mem) == party_count_from(mem, 0)

\* what a slot of the party can hold: nothing, a mon, a mon of another order
\* with a two-byte species, and a slot with a pid whose species decodes to 0
SlotContents ==
    { [pid |-> 0, otid |-> 0, species |-> 0, item |-> 0, level |-> 0],
      [pid |-> 1, otid |-> 517, species |-> 25, item |-> 0, level |-> 5],
      [pid |-> 30, otid |-> 70000, species |-> 300, item |-> 13, level |-> 40],
      [pid |-> 7, otid |-> 9, species |-> 0, item |-> 13, level |-> 1] }
PartyArgs ==
    { [fn |-> "get_party_data", slots |-> mons, raw_len |-> n] :
        mons \in [1..PARTY_SIZE -> SlotContents],
        n \in {MaxPartyBytes, MaxPartyBytes - 350, MaxPartyBytes - 550} }

InitParty == arg \in PartyArgs /\ ret = NoCall

GetPartyData ==
    /\ arg.fn = "get_party_data" /\ ret = NoCall
    /\ LET mem == PartyBytes(arg.slots)
           raw == SubSeq(mem, 1, Min(arg.raw_len, Len(mem)))
       IN  ret' = [fn |-> arg.fn,
                   party |-> get_party_data_fast_from_raw(raw),
                   count |-> get_party_count(mem)]
    /\ UNCHANGED arg

-----------------------------------------------------------------------------
(* The bag reader: _read_pocket_items_from_raw.                            *)

MaxBagSlots == 6    \* the largest pocket capacity read

ITEM_ENTRY_SIZE == 4
EmptyRunLimit == 3

\* ---- memory: the slots of a pocket as the game writes them ----
\* item id, then the quantity xor-ed with the low half of the security key
ItemEntryBytes(slot, sec_key) ==
    LET enc_qty == Xor(slot.quantity, sec_key % 65536)
    IN  << slot.id % 256, slot.id \div 256, enc_qty % 256, enc_qty \div 256 >>
PocketBytes(slots, sec_key) ==
    Concat([k \in 1..Len(slots) |-> ItemEntryBytes(slots[k], sec_key)])

\* ---- the parser ----
\* the list ends at the first empty slot
ends_at_first_empty(consecutive_empty) == consecutive_empty >= 1
\* the list ends at three empty slots in a row
ends_pocket(consecutive_empty) == consecutive_empty >= EmptyRunLimit

\* the loop of _read_pocket_items_from_raw from slot i on
RECURSIVE pocket_items_from(_, _, _, _, _)
pocket_items_from(raw, cap, key16, i, consecutive_empty) ==
    LET off == i * ITEM_ENTRY_SIZE
        item_id == raw[off + 2] * 256 + raw[off + 1]
        enc_qty == raw[off + 4] * 256 + raw[off + 3]
    IN  IF i >= cap THEN << >>
        ELSE IF off + 3 >= Len(raw) THEN << >>
        ELSE IF item_id = 0
             THEN IF ends_pocket(consecutive_empty + 1) THEN << >>
                  ELSE pocket_items_from(raw, cap, key16, i + 1, consecutive_empty + 1)
        ELSE << [id |-> item_id, quantity |-> Xor(enc_qty, key16)] >>
             \o pocket_items_from(raw, cap, key16, i + 1, 0)

read_pocket_items_from_raw(raw, cap, sec_key) ==
    IF raw = << >> \/ cap = 0 THEN << >>
    ELSE pocket_items_from(raw, cap, sec_key % 65536, 0, 0)

\* what a slot can hold: nothing, a few of an item, many of a two-byte item
BagSlots ==
    { [id |-> 0, quantity |-> 0], [id |-> 13, quantity |-> 5],
      [id |-> 300, quantity |-> 999] }
SecurityKeys == {0, 305441741}
BagArgs ==
    { [fn |-> "read_pocket_items", slots |-> slots, sec_key |-> k, cut |-> c] :
        slots \in UNION {[1..n -> BagSlots] : n \in 1..MaxBagSlots},
        k \in SecurityKeys, c \in {0, 2} }

InitBag == arg \in BagArgs /\ ret = NoCall

\* the pocket read whole, or short of its last two bytes
ReadPocketItems ==
    /\ arg.fn = "read_pocket_items" /\ ret = NoCall
    /\ LET mem == PocketBytes(arg.slots, arg.sec_key)
           raw == SubSeq(mem, 1, Len(mem) - arg.cut)
       IN  ret' = [fn |-> arg.fn, slots_read |-> Len(raw) \div ITEM_ENTRY_SIZE,
                   items |-> read_pocket_items_from_raw(raw, Len(arg.slots),
                                                        arg.sec_key)]
    /\ UNCHANGED arg

-----------------------------------------------------------------------------
(* The move model of the path planner: apply_move_with_ledge.              *)

GridSize == 8    \* the side of the grid moved on

WALL == 0
FREE == 1
TALL_GRASS == 2
WATER == 3
WARP == 9
NPC == 10
INTERACTIVE == 11
PC == 14
REGION_MAP == 15
TELEVISION == 16
BOOKSHELF == 18
TRASH_CAN == 21
SHOP_SHELF == 22
ITEM_BALL == 55
OOB_COLLISION == 25
BREAKABLE_ROCK == 36
TEMP_WALL == 66
DOOR == 26
LADDER == 27
ESCALATOR == 28
HOLE == 29
STAIRS == 30
ENTRANCE == 31
WARP_ARROW == 32
BOULDER == 33
TREE == 35
LOCKED_DOOR == 67
LEDGE_EAST == 5
LEDGE_WEST == 6
LEDGE_NORTH == 7
LEDGE_SOUTH == 8
BLOCK_N == 68
BLOCK_S == 69
BLOCK_E == 70
BLOCK_W == 71
BLOCK_NE == 72
BLOCK_NW == 73
BLOCK_SE == 74
BLOCK_SW == 75
NoTile == -1    \* None: a cell under the fog

DIRS == [up |-> << 0, -1 >>, down |-> << 0, 1 >>,
         left |-> << -1, 0 >>, right |-> << 1, 0 >>]
LEDGE_DIR ==
    (LEDGE_EAST :> << 1, 0 >>) @@ (LEDGE_WEST :> << -1, 0 >>)
    @@ (LEDGE_NORTH :> << 0, -1 >>) @@ (LEDGE_SOUTH :> << 0, 1 >>)
WARP_LIKE == {WARP, DOOR, LADDER, ESCALATOR, HOLE, STAIRS, ENTRANCE, WARP_ARROW}
STATIC_COLLISION_TILES ==
    {WALL, NPC, INTERACTIVE, TREE, LOCKED_DOOR, SHOP_SHELF, PC, REGION_MAP,
     TELEVISION, BOOKSHELF, TRASH_CAN, ITEM_BALL, BREAKABLE_ROCK, TEMP_WALL,
     OOB_COLLISION}

\* no move: the None returned
NoCoord == << >>

\* grid: [y -> [x -> tile]], coordinates from 0
in_bounds(grid, c) ==
    /\ 0 <= c[2] /\ c[2] < Len(grid)
    /\ 0 <= c[1] /\ c[1] < Len(grid[1])
tile_at(grid, c) == grid[c[2] + 1][c[1] + 1]

blocked_by_default(tile, strength, movement_mode) ==
    IF tile = NoTile THEN FALSE
    ELSE IF tile \in STATIC_COLLISION_TILES THEN TRUE
    ELSE IF tile = BOULDER /\ ~strength THEN TRUE
    ELSE IF tile = WATER /\ movement_mode # "SURF" THEN TRUE
    ELSE FALSE

is_warp_like(tile) == IF tile # NoTile THEN tile \in WARP_LIKE ELSE FALSE

entry_blocked(tile, move_dir) ==
    LET entering_from == [down |-> "N", up |-> "S", right |-> "W", left |-> "E"][move_dir]
    IN  IF tile = NoTile THEN FALSE
        ELSE \/ tile = BLOCK_N /\ entering_from = "N"
             \/ tile = BLOCK_S /\ entering_from = "S"
             \/ tile = BLOCK_E /\ entering_from = "E"
             \/ tile = BLOCK_W /\ entering_from = "W"
             \/ tile = BLOCK_NE /\ entering_from \in {"N", "E"}
             \/ tile = BLOCK_NW /\ entering_from \in {"N", "W"}
             \/ tile = BLOCK_SE /\ entering_from \in {"S", "E"}
             \/ tile = BLOCK_SW /\ entering_from \in {"S", "W"}

\* a ledge that holds the player on it
stays_on_ledge(nxt, ld) == nxt
\* land = the tile after the ledge, in the ledge's direction
ledge_landing(nxt, ld) == << nxt[1] + ld[1], nxt[2] + ld[2] >>

apply_move_with_ledge(grid, cur, move_dir, strength, movement_mode, goal, allow_warp_tiles, extra_blocked) ==
    LET d == DIRS[move_dir]
        nxt == << cur[1] + d[1], cur[2] + d[2] >>
    IN  IF ~in_bounds(grid, nxt) THEN NoCoord
        ELSE
        LET t1 == tile_at(grid, nxt)
        IN  IF nxt # goal /\ ~allow_warp_tiles /\ is_warp_like(t1) THEN NoCoord
            ELSE IF entry_blocked(t1, move_dir) THEN NoCoord
            ELSE IF t1 # NoTile /\ t1 \in extra_blocked /\ nxt # goal THEN NoCoord
            ELSE IF nxt # goal /\ blocked_by_default(t1, strength, movement_mode)
                 THEN NoCoord
            ELSE IF t1 \in DOMAIN LEDGE_DIR
                 THEN LET ld == LEDGE_DIR[t1]
                          land == ledge_landing(nxt, ld)
                      IN  IF d # ld THEN NoCoord
                          ELSE IF ~in_bounds(grid, land) THEN NoCoord
                          ELSE
                          LET t2 == tile_at(grid, land)
                          IN  IF land # goal /\ ~allow_warp_tiles /\ is_warp_like(t2)
                              THEN NoCoord
                              ELSE IF entry_blocked(t2, move_dir) THEN NoCoord
                              ELSE IF t2 # NoTile /\ t2 \in extra_blocked /\ land # goal
                                   THEN NoCoord
                              ELSE IF land # goal
                                      /\ blocked_by_default(t2, strength, movement_mode)
                                   THEN NoCoord
                              ELSE land
            ELSE nxt

\* the tiles tried ahead of the player, and where the player stands
MoveTiles ==
    {NoTile, WALL, FREE, WATER, WARP, BOULDER, LEDGE_EAST, LEDGE_WEST,
     LEDGE_NORTH, LEDGE_SOUTH, BLOCK_N, BLOCK_SW}
MoveStarts ==
    { << 5, 5 >>, << 1, 1 >>, << GridSize - 2, GridSize - 2 >>, << 0, 3 >> }
\* a grid of free ground with t1 one tile ahead and t2 two tiles ahead
MoveGrid(cur, move_dir, t1, t2) ==
    LET d == DIRS[move_dir]
    IN  [y \in 1..GridSize |->
            [x \in 1..GridSize |->
                IF << x - 1, y - 1 >> = << cur[1] + d[1], cur[2] + d[2] >> THEN t1
                ELSE IF << x - 1, y - 1 >> = << cur[1] + 2 * d[1], cur[2] + 2 * d[2] >>
                     THEN t2
                ELSE FREE]]
MoveArgs ==
    { [fn |-> "apply_move_with_ledge", cur |-> c, move_dir |-> md, t1 |-> a,
       t2 |-> b, strength |-> s, movement_mode |-> mm, goal_at |-> g,
       allow_warp_tiles |-> w, extra_blocked |-> eb] :
        c \in MoveStarts, md \in DOMAIN DIRS, a \in MoveTiles, b \in MoveTiles,
        s \in BOOLEAN, mm \in {"WALK", "SURF"}, g \in 0..2, w \in BOOLEAN,
        eb \in {{}, {FREE}} }

InitMove == arg \in MoveArgs /\ ret = NoCall

\* the goal is far away (0), one tile ahead (1) or two tiles ahead (2)
ApplyMove ==
    /\ arg.fn = "apply_move_with_ledge" /\ ret = NoCall
    /\ LET d == DIRS[arg.move_dir]
           goal == IF arg.goal_at = 0 THEN << GridSize - 1, 0 >>
                   ELSE << arg.cur[1] + arg.goal_at * d[1],
                           arg.cur[2] + arg.goal_at * d[2] >>
       IN  ret' = [fn |-> arg.fn,
                   pos |-> apply_move_with_ledge(
                             MoveGrid(arg.cur, arg.move_dir, arg.t1, arg.t2),
                             arg.cur, arg.move_dir, arg.strength,
                             arg.movement_mode, goal, arg.allow_warp_tiles,
                             arg.extra_blocked)]
    /\ UNCHANGED arg

-----------------------------------------------------------------------------
(* The fog update of a handler, followed from its call to its return.      *)

\* update_grid is called: the grid of the map is looked up and the updater
\* starts on it
FogEnter(t) ==
    /\ Op(t) = "fog" /\ thSub[t] = "ready"
    /\ thSub' = [thSub EXCEPT ![t] = "fog"]
    /\ UNCHANGED << thKind, thPc, thRead, thOut, outstanding, store_lock, store_seq,
                    store_data, fogGrid, stored >>

\* the updater has set its cells and update_grid returns
FogLeave(t) ==
    /\ Op(t) = "fog" /\ thSub[t] = "fog"
    /\ fogGrid' = IF fogGrid[1] < MaxFog THEN [r \in Rows |-> fogGrid[r] + 1] ELSE fogGrid
    /\ Advance(t)
    /\ UNCHANGED << thKind, thRead, thOut, outstanding, store_lock, store_seq, store_data,
                    stored >>

\* the server with the fog update in two steps
SrvFogNext ==
    \E t \in Threads :
        \/ StartRequest(t) /\ UNCHANGED nonSrvVars
        \/ ReturnResponse(t) /\ UNCHANGED nonSrvVars
        \/ EmuSend(t) /\ UNCHANGED nonSrvVars
        \/ EmuRecv(t) /\ UNCHANGED nonSrvVars
        \/ FogEnter(t) /\ UNCHANGED nonSrvVars
        \/ FogLeave(t) /\ UNCHANGED nonSrvVars
        \/ UpdateAcquire(t) /\ UNCHANGED nonSrvVars
        \/ UpdateWrite(t) /\ UNCHANGED nonSrvVars
        \/ SnapshotAcquire(t) /\ UNCHANGED nonSrvVars
        \/ SnapshotCopyData(t) /\ UNCHANGED nonSrvVars
        \/ SnapshotCopyRow(t) /\ UNCHANGED nonSrvVars

-----------------------------------------------------------------------------
(* The end of a step of send_commands: the collision stop, then the fog    *)
(* hook and the passability fallback, then the dialog / battle stop.       *)

S_a_until_end_of_dialog ==
    << "a", "_", "u", "n", "t", "i", "l", "_", "e", "n", "d", "_", "o", "f", "_",
       "d", "i", "a", "l", "o", "g" >>

\* what are_all_controls_locked reads, for a trace state
LockInputOf(g) ==
    LockInput(FALSE, FALSE, g.inBattle, g.fieldLocked,
              IF g.inDialog THEN "dialog" ELSE "", FALSE, g.inDialog, g.inDialog,
              g.inDialog)
allControlsLocked(g) == g.st = "full" /\ are_all_controls_locked(LockInputOf(g))

MaxFogStepCmds == 2     \* longest mixed command list submitted under SpecStepFog

\* short lists of moves and taps, and the moves of a collision stop
FogStepBodies ==
    SeqsUpTo(StreakEntries, MaxFogStepCmds) \cup { [k \in 1..CollisionLimit |-> E_up] }

\* the overworld walked or bumped in, a dialog, a script holding the controls
FogStepStates == StreakStates \cup { TraceState(1, 1, FALSE, FALSE, TRUE) }

buttons_include_a(buttons) ==
    /\ buttons.t = "list"
    /\ \E k \in 1..Len(buttons.v) :
          IsStr(buttons.v[k]) /\ Lower(Strip(buttons.v[k].v)) = S_a

is_a_like_command(cmd) ==
    CASE cmd.type = "press" -> buttons_include_a(cmd.buttons)
      [] cmd.type = "control" ->
            /\ IsStr(cmd.command)
            /\ normalize_control_command(cmd.command.v) \in {S_a, S_a_until_end_of_dialog}
      [] OTHER -> FALSE

should_capture_before_passability_snapshot(cmd, before_state) ==
    IF ~is_a_like_command(cmd) THEN FALSE
    ELSE IF /\ cmd.type = "control"
            /\ normalize_control_command(cmd.command.v) = S_a_until_end_of_dialog
         THEN TRUE
    ELSE LET f == trace_key_fields(before_state)
         IN  f.inDialog \/ f.fieldLocked \/ allControlsLocked(before_state)

\* the step did not reach the hook
NoStepFog == [caller |-> "none", called |-> FALSE, locked |-> FALSE, in_dialog |-> FALSE,
              ran |-> FALSE, shape_mismatch |-> FALSE, tilesDiscovered |-> FALSE,
              groundWallChanged |-> FALSE, fromFallback |-> FALSE]

\* a delta that outlives the shape mismatch
delta_kept(found, shape_mismatch) == found
\* discovered.clear() / walls_to_free.clear() / free_to_walls.clear()
delta_reported(found, shape_mismatch) == found /\ ~shape_mismatch

\* the hook: snap is the hook's own read of the game; mismatch, discovered and
\* walls are what the engine reports; direct is what the diff of the two
\* passability snapshots finds
fog_hook(cmd, before_state, snap, mismatch, discovered, walls, direct) ==
    LET locked == allControlsLocked(snap)
        ran == ~skip_fog_update(locked, snap.inDialog)
        shape_mismatch == ran /\ mismatch
        discovered_tiles == ran /\ delta_reported(discovered, shape_mismatch)
        walls_changed == ran /\ delta_reported(walls, shape_mismatch)
        fallback == /\ should_capture_before_passability_snapshot(cmd, before_state)
                    /\ ~walls_changed
                    /\ direct
    IN  [caller |-> "step", called |-> TRUE, locked |-> locked,
         in_dialog |-> snap.inDialog, ran |-> ran, shape_mismatch |-> shape_mismatch,
         tilesDiscovered |-> discovered_tiles,
         groundWallChanged |-> walls_changed \/ fallback,
         fromFallback |-> fallback]

\* the after-state and the rest of the loop body, the fog hook included: it
\* is reached by a press, hold or control that did not stop on collisions
StepAfterThenFog(G) ==
    /\ StepAfter(G, {FALSE})
    /\ LET cmd == Fields(normalized_commands[idx + 1])
       IN  IF cmd.type \in {"press", "hold", "control"} /\ ~interrupted_by_collision'
           THEN \E snap \in G, mismatch \in BOOLEAN, discovered \in BOOLEAN,
                   walls \in BOOLEAN, direct \in BOOLEAN :
                   fog_last' = fog_hook(cmd, before, snap, mismatch, discovered,
                                        walls, direct)
           ELSE fog_last' = NoStepFog
    /\ UNCHANGED << fog_grids, full_map, fog_calls >>

StepFogNext(B, G) ==
    \/ SendCommandsBegin(B, G, {FALSE}) /\ UNCHANGED nonCtlVars
    \/ StepBefore(G, {FALSE}) /\ UNCHANGED nonCtlVars
    \/ StepIssue({FALSE}) /\ UNCHANGED nonCtlVars
    \/ StepAfterThenFog(G) /\ UNCHANGED << srvVars, bkVars, evVars, cacheVars, loopVars, fnVars >>

-----------------------------------------------------------------------------
(* The caches of build_full_state: the bag and the PC (TTL caches), the    *)
(* dialog state (keyed by the bytes of its snapshot).                      *)

MaxBuilds == 2          \* snapshot builds followed

BAG_CACHE_TTL_S == 8    \* _BAG_CACHE_TTL_S = 0.8, in tenths of a second
PC_CACHE_TTL_S == 15    \* _PC_CACHE_TTL_S = 1.5, in tenths of a second
BAG_FORCE_REFRESH_MENU_TYPES == {"bagMenu", "itemStorageList", "itemStorageMenu"}
PC_FORCE_REFRESH_MENU_TYPES ==
    {"pokemonStorage", "pokemonStoragePcMenu", "playerPcMenu", "itemStorageList",
     "itemStorageMenu"}

NoKey == -1             \* _LAST_*_CACHE_KEY is None
\* _LAST_*_CACHE_STATE is None
NoCacheState == [decoded |-> FALSE, under |-> 0, at |-> 0]
\* a value decoded under a key (security key / saveblock-1 pointer) at a time
DecodedState(under, at) == [decoded |-> TRUE, under |-> under, at |-> at]
NoBuild == [fn |-> "none"]

\* no menu, a text box, and the menus of the bag and of the PC
MenuTypes ==
    {"", "dialog", "bagMenu", "itemStorageList", "itemStorageMenu", "pokemonStorage",
     "pokemonStoragePcMenu", "playerPcMenu"}
\* security keys and saveblock-1 pointers read; 0: the read gave nothing
SecurityKeys2 == {0, 1, 2}
Sb1Pointers == {0, 1}
\* time between two builds: at and just over each TTL
BuildDelays == {BAG_CACHE_TTL_S, BAG_CACHE_TTL_S + 1, PC_CACHE_TTL_S, PC_CACHE_TTL_S + 1}

\* bag_key / pc_key: a key of 0 stands for the key of the cache
cache_key_for(key_read, last_key) ==
    IF key_read = 0 /\ last_key # NoKey THEN last_key ELSE key_read

\* a cache that lives for ever
ttl_ignored(force_refresh, cache, key, now, ttl) ==
    /\ ~force_refresh
    /\ cache.state # NoCacheState
    /\ cache.key = key
\* bag_cache_valid / pc_cache_valid
ttl_cache_valid(force_refresh, cache, key, now, ttl) ==
    /\ ~force_refresh
    /\ cache.state # NoCacheState
    /\ cache.key = key
    /\ (now - cache.ts) <= ttl

\* the globals after a decode: the key is kept when the new one is 0
cache_after_decode(cache, key, now, state) ==
    [key |-> IF key # 0 THEN key ELSE cache.key, ts |-> now, state |-> state]

\* ---- the dialog cache ----
DialogRanges == 2       \* len(_DIALOG_SNAPSHOT_RANGES): the dialog window
DialogRangesExt == 3    \* len(_DIALOG_SNAPSHOT_RANGES_EXT): the party follows
NoSnapshotRead == << >>                   \* ui_snapshot is None: the batched read failed
\* a range read short, a byte of 0, a byte of 1
SegmentReads == { << >>, << 0 >>, << 1 >> }
UiSnapshots == [1..DialogRangesExt -> SegmentReads] \cup {NoSnapshotRead}
\* (security key, saveblock-1 pointer, saveblock-2 pointer) of the snapshot
DialogPointers == { << 1, 1, 1 >>, << 2, 1, 1 >> }

\* the bytes of the dialog window in a snapshot
dialog_window(ui_snapshot) == SubSeq(ui_snapshot, 1, DialogRanges)

\* the bytes hashed with the length prefixes left out
sig_without_lengths(ui_snapshot) ==
    Concat([k \in 1..DialogRanges |-> ui_snapshot[k]])
\* what blake2b is fed: each segment of the window after its length (a
\* 4-byte little-endian number); the digest of 16 bytes stands for its input
dialog_sig(ui_snapshot) ==
    Concat([k \in 1..DialogRanges |->
               << Len(ui_snapshot[k]), 0, 0, 0 >> \o ui_snapshot[k]])

dialog_key(ptrs, ui_snapshot) == << ptrs[1], ptrs[2], ptrs[3], dialog_sig(ui_snapshot) >>

NoDialogState == [decoded |-> FALSE, under |-> << >>, at |-> << >>]
NoDialogCache == [key |-> << >>, state |-> NoDialogState]

\* ---- the caches of the map reader ----
\* main_beh: the behaviors kept; tilesets (history): the attribute pointers
\* of the tilesets they were read for
NoStaticCache ==
    [key |-> << >>, main_w |-> 0, main_h |-> 0, grid_ptr |-> 0, main_beh |-> << >>,
     tilesets |-> << >>]
NoMapRead == [fn |-> "none"]

CacheInit ==
    /\ now_ts = 0
    /\ LAST_BAG_CACHE = [key |-> NoKey, ts |-> 0, state |-> NoCacheState]
    /\ LAST_PC_CACHE = [key |-> NoKey, ts |-> 0, state |-> NoCacheState]
    /\ LAST_DIALOG_CACHE = NoDialogCache
    /\ build_last = NoBuild
    /\ builds = 0
    /\ MAP_STATIC_CACHE = NoStaticCache
    /\ BEHAVIOR_BY_ATTR_PTR_CACHE = {}
    /\ map_read_last = NoMapRead
    /\ map_reads = 0

\* build_full_state, the bag and the PC of the snapshot
BuildBagAndPc ==
    /\ builds < MaxBuilds
    /\ builds' = builds + 1
    /\ \E delay \in BuildDelays, menu_type \in MenuTypes, in_battle \in BOOLEAN,
          security_key \in SecurityKeys2, sb1_ptr \in Sb1Pointers :
          LET now == now_ts + delay
              bag_key == cache_key_for(security_key, LAST_BAG_CACHE.key)
              bag_force_refresh == menu_type \in BAG_FORCE_REFRESH_MENU_TYPES \/ in_battle
              bag_cache_valid == ttl_cache_valid(bag_force_refresh, LAST_BAG_CACHE,
                                                 bag_key, now, BAG_CACHE_TTL_S)
              bag == IF bag_cache_valid THEN LAST_BAG_CACHE.state
                     ELSE DecodedState(security_key, now)
              pc_key == cache_key_for(sb1_ptr, LAST_PC_CACHE.key)
              pc_force_refresh == menu_type \in PC_FORCE_REFRESH_MENU_TYPES
              pc_cache_valid == ttl_cache_valid(pc_force_refresh, LAST_PC_CACHE,
                                                pc_key, now, PC_CACHE_TTL_S)
              pc_state == IF pc_cache_valid THEN LAST_PC_CACHE.state
                          ELSE DecodedState(sb1_ptr, now)
          IN  /\ now_ts' = now
              /\ LAST_BAG_CACHE' = IF bag_cache_valid THEN LAST_BAG_CACHE
                                   ELSE cache_after_decode(LAST_BAG_CACHE, bag_key, now, bag)
              /\ LAST_PC_CACHE' = IF pc_cache_valid THEN LAST_PC_CACHE
                                  ELSE cache_after_decode(LAST_PC_CACHE, pc_key, now,
                                                          pc_state)
              /\ build_last' = [fn |-> "bag_pc", now |-> now, menu_type |-> menu_type,
                                in_battle |-> in_battle, security_key |-> security_key,
                                sb1_ptr |-> sb1_ptr,
                                bag_cache |-> bag_cache_valid, bag |-> bag,
                                pc_cache |-> pc_cache_valid, pc |-> pc_state]
    /\ UNCHANGED << LAST_DIALOG_CACHE, mapReadVars >>

\* build_full_state, the dialog state of the snapshot
BuildDialog ==
    /\ builds < MaxBuilds
    /\ builds' = builds + 1
    /\ \E ui_snapshot \in UiSnapshots, ptrs \in DialogPointers :
          IF ui_snapshot # NoSnapshotRead
          THEN LET key == dialog_key(ptrs, ui_snapshot)
                   hit == /\ LAST_DIALOG_CACHE.key = key
                          /\ LAST_DIALOG_CACHE.state.decoded
                   decoded == [decoded |-> TRUE, under |-> ptrs, at |-> ui_snapshot]
               IN  /\ LAST_DIALOG_CACHE' = IF hit THEN LAST_DIALOG_CACHE
                                           ELSE [key |-> key, state |-> decoded]
                   /\ build_last' = [fn |-> "dialog", ui_snapshot |-> ui_snapshot,
                                     ptrs |-> ptrs, dialog_cache_hit |-> hit,
                                     dialog_state |-> IF hit THEN LAST_DIALOG_CACHE.state
                                                      ELSE decoded]
          ELSE /\ LAST_DIALOG_CACHE' = NoDialogCache
               /\ build_last' = [fn |-> "dialog", ui_snapshot |-> ui_snapshot,
                                 ptrs |-> ptrs, dialog_cache_hit |-> FALSE,
                                 dialog_state |-> [decoded |-> TRUE, under |-> ptrs,
                                                   at |-> ui_snapshot]]
    /\ UNCHANGED << now_ts, LAST_BAG_CACHE, LAST_PC_CACHE, mapReadVars >>

-----------------------------------------------------------------------------
(* The read requests of the map reader: _read_map_tiles_and_behaviors_fast *)
(* and the readers it falls back on.                                       *)

MaxMapReads == 2        \* invocations of the map reader followed

\* what the memory holds when the reader runs: the layout pointer of the map
\* header, the fields of the layout, the attribute pointers of the tilesets,
\* the fields of the backup layout; 0 is a null pointer or an empty dimension
MapMemories ==
    [layout_base : {0, 1, 2}, main_w : {0, 2}, main_h : {2}, grid_ptr : {0, 1},
     primary_tileset : {0, 1}, secondary_tileset : {0, 2},
     primary_attr_ptr : {0, 1}, secondary_attr_ptr : {0, 2},
     backup_w : {0, 3}, backup_h : {3}, backup_data_ptr : {0, 1}]
PrimaryMetatiles == 2   \* PRIMARY_TILESET_METATILE_COUNT of the model
SecondaryMetatiles == 1 \* SECONDARY_TILESET_METATILE_COUNT of the model
\* the attribute blobs that come back short in the bulk read
ShortReads == { {}, {"primary_beh"}, {"secondary_beh"} }

\* the behaviors decoded from the attributes at attr_ptr: one per metatile
decoded_behaviors(attr_ptr, count) == [k \in 1..count |-> << attr_ptr, k - 1 >>]

\* variant: a table that came back short is decoded all the same
behaviors_whatever_length(attr_ptr, count, kept, short) ==
    IF attr_ptr = 0 THEN << >> ELSE decoded_behaviors(attr_ptr, count)
\* primary_beh / secondary_beh (None is the empty list here): from the cache
\* of decoded tables, else from the bulk read when it is long enough
tileset_behaviors(attr_ptr, count, kept, short) ==
    IF attr_ptr = 0 THEN << >>
    ELSE IF attr_ptr \in kept THEN decoded_behaviors(attr_ptr, count)
    ELSE IF short THEN << >>
    ELSE decoded_behaviors(attr_ptr, count)

\* the behaviors the except branch reads: get_main_metatile_behaviors() or []
fallback_behaviors(m) ==
    IF m.primary_tileset # 0 /\ m.primary_attr_ptr = 0 THEN << >>
    ELSE (IF m.primary_tileset = 0 THEN << >>
          ELSE decoded_behaviors(m.primary_attr_ptr, PrimaryMetatiles))
         \o (IF m.secondary_tileset = 0 \/ m.secondary_attr_ptr = 0 THEN << >>
             ELSE decoded_behaviors(m.secondary_attr_ptr, SecondaryMetatiles))

\* the stage whose batched read raises; 0: none does
FailingStages == 0..4
\* the read of the fallback that raises; 0: none does
FailingFallbackReads == {0, 1}

static_cache_key(m) == << m.layout_base, m.backup_w, m.backup_h, m.backup_data_ptr >>

static_cache_hit(cached, m) ==
    /\ cached # NoStaticCache
    /\ cached.key = static_cache_key(m)
    /\ cached.main_w > 0
    /\ cached.main_h > 0
    /\ cached.grid_ptr # 0

\* the layout as stage 2 reads it; nothing is read through a null pointer
layout_read(m) ==
    IF m.layout_base # 0 THEN m
    ELSE [m EXCEPT !.main_w = 0, !.main_h = 0, !.grid_ptr = 0,
                   !.primary_tileset = 0, !.secondary_tileset = 0]

attr_ptr_read(tileset, attr_ptr) == IF tileset # 0 THEN attr_ptr ELSE 0

\* the ranges of the bulk read: the two grids, and the behaviors not kept yet
data_ranges(grid_ptr, main_w, main_h, m, attr_ptrs, kept) ==
    (IF grid_ptr # 0 /\ main_w > 0 /\ main_h > 0 THEN << "main_tiles" >> ELSE << >>)
    \o (IF m.backup_data_ptr # 0 /\ m.backup_w > 0 /\ m.backup_h > 0
        THEN << "backup_tiles" >> ELSE << >>)
    \o SelectSeq(attr_ptrs, LAMBDA a : a # 0 /\ a \notin kept)

\* the stages of the reader that send a batched read, in order
stages_read(cached, m, kept) ==
    IF static_cache_hit(cached, m)
    THEN << 1 >>
         \o (IF data_ranges(cached.grid_ptr, cached.main_w, cached.main_h, m, << >>, kept)
                # << >> THEN << 4 >> ELSE << >>)
    ELSE LET l == layout_read(m)
             p == attr_ptr_read(l.primary_tileset, m.primary_attr_ptr)
             s == attr_ptr_read(l.secondary_tileset, m.secondary_attr_ptr)
         IN  << 1 >>
             \o (IF m.layout_base # 0 THEN << 2 >> ELSE << >>)
             \o (IF l.primary_tileset # 0 \/ l.secondary_tileset # 0
                 THEN << 3 >> ELSE << >>)
             \o (IF data_ranges(l.grid_ptr, l.main_w, l.main_h, m, << p, s >>, kept)
                    # << >> THEN << 4 >> ELSE << >>)

\* the reads of _read_metatile_behaviors_from_tileset
tileset_behavior_reads(tileset, attr_ptr) ==
    IF tileset = 0 THEN 0 ELSE IF attr_ptr = 0 THEN 1 ELSE 2

\* the reads of get_main_metatile_behaviors: the layout pointer, the two
\* tileset pointers, the primary tileset, then the secondary one if there is
\* one and the primary one gave behaviors
main_metatile_behaviors_reads(m) ==
    1 + 2 + tileset_behavior_reads(m.primary_tileset, m.primary_attr_ptr)
    + (IF m.primary_tileset # 0 /\ m.primary_attr_ptr = 0 THEN 0
       ELSE tileset_behavior_reads(m.secondary_tileset, m.secondary_attr_ptr))

\* the reads of the except branch: width, height, tiles, behaviors, backup
\* dimensions, backup tiles, each with the reads of the pointers it follows
fallback_reads(m) ==
    2 + 2
    + (IF m.main_w > 0 /\ m.main_h > 0 THEN 3 ELSE 0)
    + main_metatile_behaviors_reads(m)
    + 2
    + (IF m.backup_w > 0 /\ m.backup_h > 0 THEN 2 ELSE 0)

\* index of a stage in the stages read; 0 if it is not read
StageIndex(stages, stage) ==
    IF \E k \in 1..Len(stages) : stages[k] = stage
    THEN CHOOSE k \in 1..Len(stages) : stages[k] = stage ELSE 0

\* _read_map_tiles_and_behaviors_fast, one invocation
ReadMapFast ==
    /\ map_reads < MaxMapReads
    /\ map_reads' = map_reads + 1
    /\ \E m \in MapMemories, fail_at \in FailingStages :
       \E fallback_fail \in IF StageIndex(stages_read(MAP_STATIC_CACHE, m,
                                                      BEHAVIOR_BY_ATTR_PTR_CACHE),
                                          fail_at) # 0
                             THEN FailingFallbackReads ELSE {0},
          short \in IF fail_at = 0 /\ ~static_cache_hit(MAP_STATIC_CACHE, m)
                    THEN ShortReads ELSE { {} } :
          LET hit == static_cache_hit(MAP_STATIC_CACHE, m)
              stages == stages_read(MAP_STATIC_CACHE, m, BEHAVIOR_BY_ATTR_PTR_CACHE)
              failed == StageIndex(stages, fail_at)
              l == layout_read(m)
              p == attr_ptr_read(l.primary_tileset, m.primary_attr_ptr)
              s == attr_ptr_read(l.secondary_tileset, m.secondary_attr_ptr)
              primary_beh == tileset_behaviors(p, PrimaryMetatiles,
                                               BEHAVIOR_BY_ATTR_PTR_CACHE,
                                               "primary_beh" \in short)
              secondary_beh == tileset_behaviors(s, SecondaryMetatiles,
                                                 BEHAVIOR_BY_ATTR_PTR_CACHE,
                                                 "secondary_beh" \in short)
              main_beh == IF hit THEN MAP_STATIC_CACHE.main_beh
                          ELSE primary_beh \o secondary_beh
          IN  IF failed = 0
              THEN /\ MAP_STATIC_CACHE' =
                          IF hit THEN MAP_STATIC_CACHE
                          ELSE [key |-> static_cache_key(m), main_w |-> l.main_w,
                                main_h |-> l.main_h, grid_ptr |-> l.grid_ptr,
                                main_beh |-> main_beh, tilesets |-> << p, s >>]
                   /\ BEHAVIOR_BY_ATTR_PTR_CACHE' =
                          IF hit THEN BEHAVIOR_BY_ATTR_PTR_CACHE
                          ELSE BEHAVIOR_BY_ATTR_PTR_CACHE
                               \cup { a \in {p} \ {0} : primary_beh # << >> }
                               \cup { a \in {s} \ {0} : secondary_beh # << >> }
                   /\ map_read_last' =
                          [fn |-> "read_map_fast",
                           path |-> IF hit THEN "static_cache_hit" ELSE "first_sight",
                           requests |-> Len(stages), raised |-> FALSE,
                           tilesets |-> << p, s >>, main_beh |-> main_beh]
              ELSE /\ UNCHANGED << MAP_STATIC_CACHE, BEHAVIOR_BY_ATTR_PTR_CACHE >>
                   /\ map_read_last' =
                          [fn |-> "read_map_fast", path |-> "batched_read_failed",
                           requests |-> failed + (IF fallback_fail # 0 THEN fallback_fail
                                                  ELSE fallback_reads(m)),
                           raised |-> fallback_fail # 0, tilesets |-> << p, s >>,
                           main_beh |-> IF fallback_fail # 0 THEN << >>
                                        ELSE fallback_behaviors(m)]
    /\ UNCHANGED buildVars

-----------------------------------------------------------------------------
(* The map pointers kept per map id: _get_map_events_base and              *)
(* _get_map_connections_ptr of world/events.py, called by build_full_state *)
(* with the map id of its snapshot, while the game goes on running and     *)
(* warps between maps.                                                     *)

\* the maps the player warps between
WarpMaps == {"3-1", "3-2", "4-0"}

\* the events pointer of each map's header
HeaderEventsPtr == [m \in WarpMaps |-> CASE m = "3-1" -> 1 [] m = "3-2" -> 2 [] OTHER -> 3]

\* the connections pointer of each map's header; an indoor map has none
HeaderConnectionsPtr == [m \in WarpMaps |-> CASE m = "3-1" -> 1 [] m = "3-2" -> 2 [] OTHER -> 0]

\* dict.get(key) of a key that is not there
NotCached == -1

NoPtrRead == [fn |-> "none"]

\* the pointer a reader works with: the one kept under the key, or else the
\* one of the header in memory
pointer_for(cache, key, header_ptr) ==
    IF cache[key] # NotCached THEN cache[key] ELSE header_ptr

\* the pointers kept after the read: a non-null pointer read from the header
\* is kept under the key
pointers_after(cache, key, header_ptr) ==
    IF cache[key] = NotCached /\ header_ptr # 0
    THEN [cache EXCEPT ![key] = header_ptr]
    ELSE cache

PtrInit ==
    /\ game_location = "3-1"
    /\ game_header = game_location
    /\ MAP_EVENTS_BASE_BY_MAP = [m \in WarpMaps |-> NotCached]
    /\ MAP_CONNECTIONS_PTR_BY_MAP = [m \in WarpMaps |-> NotCached]
    /\ ptr_pc = "idle"
    /\ snap_key = "none"
    /\ ptr_last = NoPtrRead

\* the game: a warp writes the destination to gSaveBlock1Ptr->location
WarpSetLocation ==
    /\ game_header = game_location
    /\ \E m \in WarpMaps \ {game_location} : game_location' = m
    /\ UNCHANGED << game_header, MAP_EVENTS_BASE_BY_MAP, MAP_CONNECTIONS_PTR_BY_MAP,
                    ptr_pc, snap_key, ptr_last >>

\* the game: the warp then loads the header of the destination in gMapHeader
WarpLoadHeader ==
    /\ game_header # game_location
    /\ game_header' = game_location
    /\ UNCHANGED << game_location, MAP_EVENTS_BASE_BY_MAP, MAP_CONNECTIONS_PTR_BY_MAP,
                    ptr_pc, snap_key, ptr_last >>

\* build_full_state takes its snapshot: the map id is read from the save block
ReadSnapshot ==
    /\ ptr_pc = "idle"
    /\ snap_key' = game_location
    /\ ptr_pc' = "bg_events"
    /\ UNCHANGED << game_location, game_header, MAP_EVENTS_BASE_BY_MAP,
                    MAP_CONNECTIONS_PTR_BY_MAP, ptr_last >>

\* get_current_map_bg_events(map_group, map_num) asks for the events base
GetMapEventsBase ==
    /\ ptr_pc = "bg_events"
    /\ LET header_ptr == HeaderEventsPtr[game_header]
       IN  /\ MAP_EVENTS_BASE_BY_MAP' =
                  pointers_after(MAP_EVENTS_BASE_BY_MAP, snap_key, header_ptr)
           /\ ptr_last' = [fn |-> "_get_map_events_base", key |-> snap_key,
                           hit |-> MAP_EVENTS_BASE_BY_MAP[snap_key] # NotCached,
                           ptr |-> pointer_for(MAP_EVENTS_BASE_BY_MAP, snap_key, header_ptr)]
    /\ ptr_pc' = "connections"
    /\ UNCHANGED << game_location, game_header, MAP_CONNECTIONS_PTR_BY_MAP, snap_key >>

\* get_current_map_connections(map_group, map_num) asks for the connections
\* pointer; the build is then through with the map pointers
GetMapConnectionsPtr ==
    /\ ptr_pc = "connections"
    /\ LET header_ptr == HeaderConnectionsPtr[game_header]
       IN  /\ MAP_CONNECTIONS_PTR_BY_MAP' =
                  pointers_after(MAP_CONNECTIONS_PTR_BY_MAP, snap_key, header_ptr)
           /\ ptr_last' = [fn |-> "_get_map_connections_ptr", key |-> snap_key,
                           hit |-> MAP_CONNECTIONS_PTR_BY_MAP[snap_key] # NotCached,
                           ptr |-> pointer_for(MAP_CONNECTIONS_PTR_BY_MAP, snap_key,
                                               header_ptr)]
    /\ ptr_pc' = "idle"
    /\ UNCHANGED << game_location, game_header, MAP_EVENTS_BASE_BY_MAP, snap_key >>

-----------------------------------------------------------------------------
(* The waits of a step of /sendCommands: _wait_for_control_idle,           *)
(* _wait_for_trace_change_or_lock, _wait_for_lock_transition_window,       *)
(* _wait_for_all_controls_unlocked and _wait_for_after_state of            *)
(* firered_mgba_bridge.py.  Times are in hundredths of a second.           *)

MaxWaitCmds == 2            \* commands of one call

IDLE_POLL == 2              \* poll_s of _wait_for_control_idle
CHANGE_POLL == 2            \* poll_s of _wait_for_trace_change_or_lock
WINDOW_POLL == 2            \* poll_s of _wait_for_lock_transition_window
UNLOCK_POLL == 5            \* poll_s of _wait_for_all_controls_unlocked
stable_polls_required == 2
UNLOCK_TIMEOUT == 800       \* unlock_timeout_s=8.0
TAP_CHANGE_TIMEOUT == 75    \* change_timeout_s=0.75
TAP_LOCK_GRACE == 60        \* lock_grace_s=0.6
MOVE_CONTROL_IDLE_TIMEOUT_S == 300
MOVE_CHANGE_TIMEOUT_S == 20
MOVE_LOCK_GRACE_S == 12
HOLD_CHANGE_MIN == 60       \* max(0.6, ...)
HOLD_CHANGE_EXTRA == 20     \* ... + 0.2
HOLD_CHANGE_MAX == 1000     \* min(10.0, approx_s)
HOLD_GRACE_MIN == 30        \* max(0.3, ...)
HOLD_GRACE_MAX == 100       \* min(1.0, ...)
FRAMES_PER_S == 60

\* the frames of the holds sent
HoldFrames == {60, 240}

\* approx_s and change_timeout_s of a hold
hold_change_timeout(frames) ==
    Min(HOLD_CHANGE_MAX, Max(HOLD_CHANGE_MIN, ((frames * 100) \div FRAMES_PER_S)
                                                  + HOLD_CHANGE_EXTRA))
\* hold_lock_grace_s
hold_lock_grace(frames) ==
    Min(HOLD_GRACE_MAX, Max(HOLD_GRACE_MIN, ((Max(1, frames) * 100) \div FRAMES_PER_S) \div 4))

\* the timeouts _wait_for_after_state is called with, and the one of the
\* idle-queue wait before it (0: there is none)
TapParams == [kind |-> "tap", idle_timeout |-> 0, change_timeout |-> TAP_CHANGE_TIMEOUT,
              lock_grace |-> TAP_LOCK_GRACE]
MoveParams == [kind |-> "move", idle_timeout |-> MOVE_CONTROL_IDLE_TIMEOUT_S,
               change_timeout |-> MOVE_CHANGE_TIMEOUT_S, lock_grace |-> MOVE_LOCK_GRACE_S]
HoldParams(frames) == [kind |-> "hold", idle_timeout |-> 0,
                       change_timeout |-> hold_change_timeout(frames),
                       lock_grace |-> hold_lock_grace(frames)]
WaitParams == {TapParams, MoveParams} \cup {HoldParams(f) : f \in HoldFrames}
NoParams == [kind |-> "none", idle_timeout |-> 0, change_timeout |-> 0, lock_grace |-> 0]

\* a trace state: allControlsLocked, and the other key fields taken together
TraceStates == [locked : BOOLEAN, k : 0..1]
\* _trace_key_fields, on the fields kept here
wait_key_fields(state) == << state.locked, state.k >>
\* _is_all_controls_locked
is_all_controls_locked(state) == state.locked

NoWaitInfo == [lockDetected |-> FALSE, waitedForUnlock |-> FALSE, unlockTimedOut |-> FALSE]
NoState == [locked |-> FALSE, k |-> 0]
NoWaitHist == [lock_in_window |-> FALSE, exit |-> "none", unlock_clock |-> 0]

\* a sleep that takes no time
sleep_without_time(elapsed, poll_s) == elapsed
\* time.sleep(poll_s)
after_sleep(elapsed, poll_s) == elapsed + poll_s

\* an unlock wait that returns what it is given
unlock_wait_skipped(last, elapsed, timeout_s) == TRUE
\* _wait_for_all_controls_unlocked returns: the time is up, or the state
\* read last is not locked
unlock_wait_over(last, elapsed, timeout_s) ==
    ~(elapsed < timeout_s) \/ ~is_all_controls_locked(last)

WaitInit ==
    /\ wait_pc = "start"
    /\ cmds_left = MaxWaitCmds
    /\ wait_par = NoParams
    /\ wait_clock = 0
    /\ game = NoState
    /\ wait_before = NoState
    /\ last_seen = NoState
    /\ window_last_key = wait_key_fields(NoState)
    /\ stable_unlocked_polls = 0
    /\ wait_info = NoWaitInfo
    /\ wait_after = NoState
    /\ wait_hist = NoWaitHist

\* the lock grace window of the step is open: the window is being watched,
\* or it was left on a stable state before its time was up
WindowOpen ==
    /\ wait_clock < wait_par.lock_grace
    /\ \/ wait_pc = "grace"
       \/ wait_pc = "done" /\ wait_hist.exit = "stable"

\* the game goes its way; a full lock lasts until the next poll of a grace
\* window that is watched
GameChanges ==
    /\ wait_pc \in {"start", "idle", "change", "grace", "unlock", "done"}
    /\ ~(wait_pc = "grace" /\ game.locked)
    /\ \E g \in TraceStates \ {game} :
          /\ game' = g
          /\ wait_hist' = [wait_hist EXCEPT
                              !.lock_in_window = @ \/ (g.locked /\ WindowOpen)]
    /\ UNCHANGED << wait_pc, cmds_left, wait_par, wait_clock, wait_before, last_seen, window_last_key,
                    stable_unlocked_polls, wait_info, wait_after >>

\* a step begins: the before state is read and the command is sent
StartWait ==
    /\ wait_pc = "start"
    /\ cmds_left > 0
    /\ \E par \in WaitParams :
          /\ wait_par' = par
          /\ wait_pc' = IF par.idle_timeout > 0 THEN "idle" ELSE "change"
    /\ wait_before' = game
    /\ last_seen' = game
    /\ wait_clock' = 0
    /\ window_last_key' = wait_key_fields(game)
    /\ stable_unlocked_polls' = 0
    /\ wait_info' = NoWaitInfo
    /\ wait_after' = NoState
    /\ wait_hist' = NoWaitHist
    /\ UNCHANGED << cmds_left, game >>

\* one turn of the loop of _wait_for_control_idle; _wait_for_after_state
\* begins when it returns
IdlePoll ==
    /\ wait_pc = "idle"
    /\ IF wait_clock < wait_par.idle_timeout
       THEN \E idle \in BOOLEAN :
               IF idle
               THEN /\ wait_pc' = "change"
                    /\ wait_clock' = 0
               ELSE /\ wait_clock' = after_sleep(wait_clock, IDLE_POLL)
                    /\ UNCHANGED wait_pc
       ELSE /\ wait_pc' = "change"
            /\ wait_clock' = 0
    /\ UNCHANGED << cmds_left, wait_par, game, wait_before, last_seen, window_last_key,
                    stable_unlocked_polls, wait_info, wait_after, wait_hist >>

\* _wait_for_after_state once the change wait has returned after0: on a
\* lock the unlock wait begins, otherwise the lock transition window; the
\* before state is not looked at again
AfterChange(after0) ==
    /\ last_seen' = after0
    /\ wait_clock' = 0
    /\ wait_before' = NoState
    /\ window_last_key' = wait_key_fields(after0)
    /\ stable_unlocked_polls' = 0
    /\ IF is_all_controls_locked(after0)
       THEN /\ wait_pc' = "unlock"
            /\ wait_info' = [wait_info EXCEPT !.lockDetected = TRUE,
                                              !.waitedForUnlock = TRUE]
       ELSE /\ wait_pc' = "grace"
            /\ UNCHANGED wait_info

\* one turn of the loop of _wait_for_trace_change_or_lock
ChangePoll ==
    /\ wait_pc = "change"
    /\ IF wait_clock < wait_par.change_timeout
       THEN IF wait_key_fields(game) # wait_key_fields(wait_before)
               \/ is_all_controls_locked(game)
            THEN AfterChange(game)
            ELSE /\ last_seen' = game
                 /\ wait_clock' = after_sleep(wait_clock, CHANGE_POLL)
                 /\ UNCHANGED << wait_pc, wait_before, window_last_key,
                                 stable_unlocked_polls, wait_info >>
       ELSE AfterChange(last_seen)
    /\ UNCHANGED << cmds_left, wait_par, game, wait_after, wait_hist >>

\* the step has its after state
Captured(state, how) ==
    /\ wait_pc' = "done"
    /\ wait_after' = state
    /\ wait_hist' = [wait_hist EXCEPT !.exit = how, !.unlock_clock = wait_clock]

\* one turn of the loop of _wait_for_lock_transition_window
GracePoll ==
    /\ wait_pc = "grace"
    /\ IF wait_clock < wait_par.lock_grace
       THEN LET cur == game
                same == wait_key_fields(cur) = window_last_key
                stable == IF same THEN stable_unlocked_polls + 1 ELSE 0
            IN  /\ last_seen' = cur
                /\ IF is_all_controls_locked(cur)
                   THEN /\ wait_pc' = "unlock"
                        /\ wait_clock' = 0
                        /\ wait_info' = [wait_info EXCEPT !.lockDetected = TRUE,
                                                          !.waitedForUnlock = TRUE]
                        /\ window_last_key' = wait_key_fields(NoState)
                        /\ stable_unlocked_polls' = 0
                        /\ UNCHANGED << wait_after, wait_hist >>
                   ELSE /\ wait_clock' = after_sleep(wait_clock, WINDOW_POLL)
                        /\ window_last_key' = wait_key_fields(cur)
                        /\ stable_unlocked_polls' = stable
                        /\ UNCHANGED wait_info
                        /\ IF stable >= Max(1, stable_polls_required)
                           THEN /\ wait_pc' = "done"
                                /\ wait_after' = cur
                                /\ wait_hist' = [wait_hist EXCEPT !.exit = "stable"]
                           ELSE UNCHANGED << wait_pc, wait_after, wait_hist >>
       ELSE /\ Captured(last_seen, "window")
            /\ UNCHANGED << wait_clock, last_seen, window_last_key, stable_unlocked_polls,
                            wait_info >>
    /\ UNCHANGED << cmds_left, wait_par, game, wait_before >>

\* one turn of the loop of _wait_for_all_controls_unlocked; when it returns,
\* _wait_for_after_state notes whether the state is still locked
UnlockPoll ==
    /\ wait_pc = "unlock"
    /\ IF unlock_wait_over(last_seen, wait_clock, UNLOCK_TIMEOUT)
       THEN /\ Captured(last_seen, IF wait_clock < UNLOCK_TIMEOUT THEN "unlocked"
                                                                 ELSE "unlock_timeout")
            /\ wait_info' = [wait_info EXCEPT
                                !.unlockTimedOut = is_all_controls_locked(last_seen)]
            /\ UNCHANGED << wait_clock, last_seen >>
       ELSE /\ wait_clock' = after_sleep(wait_clock, UNLOCK_POLL)
            /\ last_seen' = game
            /\ UNCHANGED << wait_pc, wait_info, wait_after, wait_hist >>
    /\ UNCHANGED << cmds_left, wait_par, game, wait_before, window_last_key, stable_unlocked_polls >>

\* the step is appended to the results and its locals are gone; the call
\* answers after its last step
WaitStepDone ==
    /\ wait_pc = "done"
    /\ cmds_left' = cmds_left - 1
    /\ wait_pc' = IF cmds_left > 1 THEN "start" ELSE "responded"
    /\ wait_par' = NoParams
    /\ wait_clock' = 0
    /\ wait_before' = NoState
    /\ last_seen' = NoState
    /\ window_last_key' = wait_key_fields(NoState)
    /\ stable_unlocked_polls' = 0
    /\ wait_info' = NoWaitInfo
    /\ wait_after' = NoState
    /\ wait_hist' = NoWaitHist
    /\ UNCHANGED game

-----------------------------------------------------------------------------
(* The loop of a_until_end_of_dialog: _run_a_until_end_of_dialog and       *)
(* _append_transcript_entry.                                               *)

AFTER_TAP_DELAY_S == 2      \* _AFTER_TAP_DELAY_S = 2.0: min_press_interval_s
max_presses == 80           \* the default of max_presses
MaxTranscriptPresses == 2   \* the presses followed when the transcript is watched

\* timeout_s when none is given
dialog_timeout_s(presses_max, min_press_interval_s) ==
    Max(12, (presses_max * min_press_interval_s) + 5)

\* a visible text is the sequence of its characters
CursorGlyph == "cursor"
HasCursor(text) == \E k \in 1..Len(text) : text[k] = CursorGlyph
\* text.startswith(last)
StartsWith(text, last) ==
    /\ Len(text) >= Len(last)
    /\ SubSeq(text, 1, Len(last)) = last

\* the key fields of a trace state the loop looks at
DialogFields(Texts) == [inDialog : BOOLEAN, visibleText : Texts]
NoFields == [inDialog |-> FALSE, visibleText |-> << "none" >>]

\* a helper that stops on its first look when nothing is to be done
stop_reason_even_at_start(fields, pressed) ==
    IF ~fields.inDialog THEN "dialogEnded"
    ELSE IF HasCursor(fields.visibleText) THEN "choiceDetected"
    ELSE "none"
\* a helper that does not look for the cursor
stop_reason_without_choice(fields) ==
    IF ~fields.inDialog THEN "dialogEnded" ELSE "none"
\* _stop_reason_from_fields
stop_reason_from_fields(fields) ==
    IF ~fields.inDialog THEN "dialogEnded"
    ELSE IF HasCursor(fields.visibleText) THEN "choiceDetected"
    ELSE "none"
\* the stop before a press: a choice or the end of the dialog counts only
\* once A has been pressed
pre_stop_reason(fields, pressed) ==
    IF pressed THEN stop_reason_from_fields(fields) ELSE "none"

\* an append that keeps every text it is given
append_always(entries, text) == Append(entries, text)
\* _append_transcript_entry
append_transcript_entry(entries, text) ==
    IF text = << >> THEN entries
    ELSE IF entries = << >> THEN << text >>
    ELSE LET last == entries[Len(entries)]
         IN  IF text = last THEN entries
             ELSE IF StartsWith(text, last) /\ Len(text) > Len(last)
             THEN [entries EXCEPT ![Len(entries)] = text]
             ELSE Append(entries, text)

\* the texts of a run watched for its budget: nothing, and a choice
BudgetTexts == { << >>, << CursorGlyph >> }
\* the texts of a run watched for its transcript
TranscriptTexts == { << >>, << "x" >>, << "x", "x" >>, << CursorGlyph >> }
\* the time an unlock wait can take: one second, or all that is left
UnlockWaits(remaining_s) == {1, remaining_s}

NoIteration == [fn |-> "none"]

LoopInit ==
    /\ dlg_pc = "running"
    /\ presses = 0
    /\ a_issued = 0
    /\ dlg_elapsed = 0
    /\ stop_reason = "none"
    /\ transcript = << >>
    /\ dlg_last = NoIteration
    /\ PtrInit
    /\ WaitInit

\* the loop is left
DialogStop(reason, looked, before_fields, pressed, after_fields) ==
    /\ dlg_pc' = "done"
    /\ stop_reason' = reason
    /\ dlg_last' = [fn |-> "iteration", presses_before |-> presses,
                    elapsed_before |-> dlg_elapsed, looked |-> looked,
                    before |-> before_fields, pressed |-> pressed,
                    after |-> after_fields]

\* one turn of the while loop of _run_a_until_end_of_dialog
DialogIteration(presses_max, Texts, Locked) ==
    /\ dlg_pc = "running"
    /\ LET timeout_s == dialog_timeout_s(presses_max, AFTER_TAP_DELAY_S)
       IN  IF dlg_elapsed >= timeout_s
           THEN /\ DialogStop("timeout", FALSE, NoFields, FALSE, NoFields)
                /\ UNCHANGED << presses, a_issued, dlg_elapsed, transcript >>
           ELSE IF presses >= presses_max
           THEN /\ DialogStop("maxPresses", FALSE, NoFields, FALSE, NoFields)
                /\ UNCHANGED << presses, a_issued, dlg_elapsed, transcript >>
           ELSE \E before_fields \in DialogFields(Texts) :
                   LET pre_stop == pre_stop_reason(before_fields, presses > 0)
                       seen == append_transcript_entry(transcript,
                                                       before_fields.visibleText)
                       pressed_at == dlg_elapsed + AFTER_TAP_DELAY_S
                   IN  IF pre_stop # "none"
                       THEN /\ DialogStop(pre_stop, TRUE, before_fields, FALSE, NoFields)
                            /\ UNCHANGED << presses, a_issued, dlg_elapsed, transcript >>
                       ELSE /\ a_issued' = a_issued + 1
                            /\ \E locked \in Locked, after_fields \in DialogFields(Texts) :
                                  LET remaining_s == timeout_s - pressed_at
                                  IN  \/ /\ locked /\ remaining_s <= 0
                                         /\ DialogStop("timeout", TRUE, before_fields, TRUE,
                                                       NoFields)
                                         /\ dlg_elapsed' = pressed_at
                                         /\ transcript' = seen
                                         /\ UNCHANGED presses
                                      \/ /\ locked /\ remaining_s > 0
                                         /\ DialogStop("timeout", TRUE, before_fields, TRUE,
                                                       NoFields)
                                         /\ dlg_elapsed' = pressed_at + remaining_s
                                         /\ transcript' = seen
                                         /\ UNCHANGED presses
                                      \/ /\ locked => remaining_s > 0
                                         /\ \E waited \in IF locked
                                                          THEN UnlockWaits(remaining_s)
                                                          ELSE {0} :
                                               dlg_elapsed' = pressed_at + waited
                                         /\ transcript' = append_transcript_entry(
                                                              seen, after_fields.visibleText)
                                         /\ presses' = presses + 1
                                         /\ LET post_stop ==
                                                    stop_reason_from_fields(after_fields)
                                            IN  IF post_stop # "none"
                                                THEN DialogStop(post_stop, TRUE,
                                                                before_fields, TRUE,
                                                                after_fields)
                                                ELSE /\ dlg_last' =
                                                          [fn |-> "iteration",
                                                           presses_before |-> presses,
                                                           elapsed_before |-> dlg_elapsed,
                                                           looked |-> TRUE,
                                                           before |-> before_fields,
                                                           pressed |-> TRUE,
                                                           after |-> after_fields]
                                                     /\ UNCHANGED << dlg_pc, stop_reason >>

-----------------------------------------------------------------------------
-----------------------------------------------------------------------------
(* The step of /sendCommands that runs a_until_end_of_dialog.              *)

\* the step calls _run_a_until_end_of_dialog
StartDialogLoop ==
    /\ wait_pc = "start"
    /\ cmds_left > 0
    /\ wait_pc' = "dialog"
    /\ wait_par' = NoParams
    /\ wait_before' = game
    /\ last_seen' = game
    /\ wait_clock' = 0
    /\ window_last_key' = wait_key_fields(game)
    /\ stable_unlocked_polls' = 0
    /\ wait_info' = NoWaitInfo
    /\ wait_after' = NoState
    /\ wait_hist' = NoWaitHist
    /\ UNCHANGED << cmds_left, game >>
    /\ UNCHANGED dlgVars

\* one turn of the loop of _run_a_until_end_of_dialog
DialogTurn ==
    /\ wait_pc = "dialog"
    /\ DialogIteration(MaxTranscriptPresses, BudgetTexts, BOOLEAN)
    /\ UNCHANGED waitVars

\* the loop is over: its final state is the after state of the step, and
\* the locals of the loop are gone
DialogReturns ==
    /\ wait_pc = "dialog"
    /\ dlg_pc = "done"
    /\ \E final \in TraceStates :
          /\ game' = final
          /\ wait_after' = final
          /\ last_seen' = final
    /\ wait_pc' = "done"
    /\ wait_hist' = [wait_hist EXCEPT !.exit = "dialog"]
    /\ wait_before' = NoState
    /\ UNCHANGED << cmds_left, wait_par, wait_clock, window_last_key,
                    stable_unlocked_polls, wait_info >>
    /\ dlg_pc' = "running"
    /\ presses' = 0
    /\ a_issued' = 0
    /\ dlg_elapsed' = 0
    /\ stop_reason' = "none"
    /\ transcript' = << >>
    /\ dlg_last' = NoIteration

(* The specifications.                                                     *)

CtlNext(B, G, F) ==
    \/ SendCommandsBegin(B, G, F) /\ UNCHANGED nonCtlVars
    \/ StepBefore(G, F) /\ UNCHANGED nonCtlVars
    \/ StepIssue(F) /\ UNCHANGED nonCtlVars
    \/ StepAfter(G, F) /\ UNCHANGED nonCtlVars

\* everything but the decoders' arguments
BaseInit == CtlInit /\ SrvInit /\ BkInit /\ FogInit /\ EvInit /\ CacheInit /\ LoopInit

Init == BaseInit /\ FnInit

\* one /sendCommands call, any submitted list, any emulator
Next == CtlNext(Bodies, GameStates, BOOLEAN)
Spec == Init /\ [][Next]_vars

\* one /sendCommands call of moves and taps, long enough for the collision stop
NextStreak == CtlNext(StreakBodies, StreakStates, {FALSE})
SpecStreak == Init /\ [][NextStreak]_vars

\* the handlers served side by side
SpecServer == Init /\ [][SrvNext]_vars

\* /requestData calls backing up the savestate, as time passes
SpecBackup == Init /\ [][BkNext]_vars

\* snapshot builds and per-step fog updates, one after the other
SpecFog == Init /\ [][FogNext]_vars

\* the BG events of the current map read again and again
SpecBgEvents == Init /\ [][EvNext]_vars

\* the connections of the current map read again and again
SpecConnections == Init /\ [][ConnNext]_vars

\* the classifier applied to a grid
NextCollision == ProcessTiles /\ UNCHANGED nonFnVars
CollisionInit == BaseInit /\ InitCollision
SpecCollision == CollisionInit /\ [][NextCollision]_vars

\* the map reader applied to a main and a backup grid
NextMapRead == ReadMapTiles /\ UNCHANGED nonFnVars
MapReadInit == BaseInit /\ InitMapRead
SpecMapRead == MapReadInit /\ [][NextMapRead]_vars

\* the party reader applied to a party in memory
NextParty == GetPartyData /\ UNCHANGED nonFnVars
PartyInit == BaseInit /\ InitParty
SpecParty == PartyInit /\ [][NextParty]_vars

\* the bag reader applied to a pocket in memory
NextBag == ReadPocketItems /\ UNCHANGED nonFnVars
BagInit == BaseInit /\ InitBag
SpecBag == BagInit /\ [][NextBag]_vars

\* the move model applied to a press
NextMove == ApplyMove /\ UNCHANGED nonFnVars
MoveInit == BaseInit /\ InitMove
SpecMove == MoveInit /\ [][NextMove]_vars

\* the server, its fog updates followed from call to return
SpecFogWorkers == Init /\ [][SrvFogNext]_vars

\* one /sendCommands call of moves and taps, with the fog hook of every step
NextStepFog == StepFogNext(FogStepBodies, FogStepStates)
SpecStepFog == Init /\ [][NextStepFog]_vars

\* snapshot builds one after the other: the bag and the PC
NextBagPc == BuildBagAndPc /\ UNCHANGED nonCacheVars
SpecBagPcCache == Init /\ [][NextBagPc]_vars

\* snapshot builds one after the other: the dialog state
NextDialogCache == BuildDialog /\ UNCHANGED nonCacheVars
SpecDialogCache == Init /\ [][NextDialogCache]_vars

\* the map reader invoked frame after frame
NextMapReads == ReadMapFast /\ UNCHANGED nonCacheVars
SpecMapReads == Init /\ [][NextMapReads]_vars

\* a_until_end_of_dialog run with its defaults
NextDialogLoop ==
    DialogIteration(max_presses, BudgetTexts, BOOLEAN)
        /\ UNCHANGED << nonLoopVars, ptrVars, waitVars >>
SpecDialogLoop == Init /\ [][NextDialogLoop]_vars
\* the loop is a thread of its own: it always takes its next turn
FairSpecDialogLoop == SpecDialogLoop /\ WF_vars(NextDialogLoop)

\* a short run of the loop over texts that grow and shrink
NextTranscript ==
    DialogIteration(MaxTranscriptPresses, TranscriptTexts, BOOLEAN)
        /\ UNCHANGED << nonLoopVars, ptrVars, waitVars >>
SpecTranscript == Init /\ [][NextTranscript]_vars

\* the state builds of a session in which the player warps between maps
NextMapPointers ==
    \/ WarpSetLocation /\ UNCHANGED << nonLoopVars, dlgVars, waitVars >>
    \/ WarpLoadHeader /\ UNCHANGED << nonLoopVars, dlgVars, waitVars >>
    \/ ReadSnapshot /\ UNCHANGED << nonLoopVars, dlgVars, waitVars >>
    \/ GetMapEventsBase /\ UNCHANGED << nonLoopVars, dlgVars, waitVars >>
    \/ GetMapConnectionsPtr /\ UNCHANGED << nonLoopVars, dlgVars, waitVars >>
SpecMapPointers == Init /\ [][NextMapPointers]_vars

\* the steps of a /sendCommands call and their waits, the game going its way
WaitStep ==
    \/ (StartWait \/ IdlePoll \/ ChangePoll \/ GracePoll \/ UnlockPoll \/ WaitStepDone)
          /\ UNCHANGED dlgVars
    \/ StartDialogLoop \/ DialogTurn \/ DialogReturns
NextSendWaits ==
    \/ StartWait /\ UNCHANGED << nonLoopVars, ptrVars, dlgVars >>
    \/ IdlePoll /\ UNCHANGED << nonLoopVars, ptrVars, dlgVars >>
    \/ ChangePoll /\ UNCHANGED << nonLoopVars, ptrVars, dlgVars >>
    \/ GracePoll /\ UNCHANGED << nonLoopVars, ptrVars, dlgVars >>
    \/ UnlockPoll /\ UNCHANGED << nonLoopVars, ptrVars, dlgVars >>
    \/ WaitStepDone /\ UNCHANGED << nonLoopVars, ptrVars, dlgVars >>
    \/ StartDialogLoop /\ UNCHANGED << nonLoopVars, ptrVars >>
    \/ DialogTurn /\ UNCHANGED << nonLoopVars, ptrVars >>
    \/ DialogReturns /\ UNCHANGED << nonLoopVars, ptrVars >>
    \/ GameChanges /\ UNCHANGED << nonLoopVars, ptrVars, dlgVars >>
SpecSendWaits == Init /\ [][NextSendWaits]_vars
\* the worker that runs the call is never held up: every emulator call returns
FairSpecSendWaits ==
    SpecSendWaits /\ WF_vars(WaitStep /\ UNCHANGED << nonLoopVars, ptrVars >>)

-----------------------------------------------------------------------------
(* Properties of the input controller.                                     *)

\* a step has been recorded and the next one has not read its before-state:
\* before / after are the states of the step recorded last
StepDone == after.st # "none"
LastStep == results[Len(results)]
NoCommandAfter(i) == Len(results) = i + 1 /\ \A k \in 1..Len(issued) : issued[k] <= i

\* C1: whatever emulator fault hits a /sendCommands call, the handler does not
\* raise, and the fault is reported by the affected step's ok=false flag and
\* error string.
C1_FaultsNeverRaise ==
    /\ pc # "raised"
    /\ \A k \in 1..Len(results) : results[k].fault => (~results[k].ok /\ results[k].error)

\* C2 (as stated): a step whose before-state has neither dialog nor battle and
\* whose after-state has a dialog or a battle stops the loop at that step, no
\* later command is executed, interruptedByDialog / interruptedByBattle are set
\* accordingly.
C2_StopsWhenStepEntersDialogOrBattle ==
    ( /\ StepDone
      /\ ~before.inDialog /\ ~before.inBattle
      /\ after.st = "full" /\ (after.inDialog \/ after.inBattle) )
    => /\ pc = "done"
       /\ interrupted_at_index = LastStep.index
       /\ NoCommandAfter(LastStep.index)
       /\ after.inDialog => interrupted_by_dialog
       /\ after.inBattle => interrupted_by_battle

\* C2 (amended): the reference is the state read at the start of the call, not
\* the step's before-state.  A step whose after-state has a dialog (a battle)
\* while the call started without a dialog (a battle) stops the loop at that
\* step, no later command is executed and interruptedByDialog
\* (interruptedByBattle) is set; the flags are set in no other case.
C2_StopsWhenDialogOrBattleNewSinceStart ==
    StepDone =>
        LET d == (~started_in_dialog) /\ after.st = "full" /\ after.inDialog
            b == (~started_in_battle) /\ after.st = "full" /\ after.inBattle
        IN  IF d \/ b
            THEN /\ pc = "done"
                 /\ interrupted_at_index = LastStep.index
                 /\ NoCommandAfter(LastStep.index)
                 /\ interrupted_by_dialog = d
                 /\ interrupted_by_battle = b
            ELSE ~interrupted_by_dialog /\ ~interrupted_by_battle

\* a battle starts at the first of two commands while the dialog the call
\* started in is still open
C2_Witness ==
    /\ pc = "done"
    /\ Len(normalized_commands) = 2 /\ Len(results) = 1
    /\ started_in_dialog /\ after.inDialog
    /\ interrupted_by_battle /\ ~interrupted_by_dialog

\* C3 (as stated): remaining_keys is exactly the submitted entries that were
\* not executed, in order and unchanged in form; it is empty when every
\* command was executed.
C3_RemainingIsSubmittedTail ==
    pc = "done" =>
        /\ \E n \in Len(results)..Len(body) : remaining_keys = SubSeq(body, n + 1, Len(body))
        /\ Len(results) = Len(normalized_commands) => remaining_keys = <<>>

\* the normalised form of the submitted list, entry by entry: objects as they
\* are, non-blank strings as control objects of the stripped string, the
\* other entries left out
KeptEntries(items) ==
    SelectSeq(items, LAMBDA e : IsDict(e) \/ (IsStr(e) /\ Strip(e.v) # <<>>))
CommandForm(e) == IF IsDict(e) THEN e ELSE PyDict("control", PyStr(Strip(e.v)), PyNone, PyNone)
ExpectedCommands(items) ==
    [k \in 1..Len(KeptEntries(items)) |-> CommandForm(KeptEntries(items)[k])]

\* C3 (amended): remaining_keys is a tail of the normalised command list, in
\* order: after a collision stop the commands after the stopping step, after a
\* dialog / battle stop those commands, preceded by the stopping command
\* itself when it is requeued; it is empty when the call was not stopped.
C3_RemainingIsNormalizedTail ==
    pc = "done" =>
        LET cmds == ExpectedCommands(body)
            n == Len(results)
        IN  IF interrupted_at_index # -1
            THEN /\ interrupted_at_index = n - 1
                 /\ \/ remaining_keys = SubSeq(cmds, n + 1, Len(cmds))
                    \/ /\ ~interrupted_by_collision
                       /\ remaining_keys = SubSeq(cmds, n, Len(cmds))
            ELSE /\ remaining_keys = <<>>
                 /\ n = Len(cmds)

\* the call stops at the first of two entries, the second being the string
\* " Up ": the tail handed back is the control object of the stripped string
C3_Witness ==
    /\ pc = "done"
    /\ interrupted_at_index = 0
    /\ Len(body) = 2 /\ IsStr(body[2])
    /\ Len(remaining_keys) = 1
    /\ remaining_keys[1] = PyDict("control", PyStr(<<"U", "p">>), PyNone, PyNone)

\* C4: the sequence stops as soon as the collision streak reaches 5, with
\* interruptedByCollision set and no command executed after the step that
\* brought the streak to 5; it is never stopped for collision below 5.
C4_StopsExactlyAtFive ==
    /\ collision_streak <= 5
    /\ collision_streak = 5 =>
          /\ pc = "done"
          /\ interrupted_by_collision
          /\ interrupted_at_index = LastStep.index
          /\ NoCommandAfter(LastStep.index)
    /\ interrupted_by_collision => collision_streak = 5

\* five blocked moves out of six submitted: the sixth is handed back
C4_Witness ==
    /\ pc = "done"
    /\ interrupted_by_collision
    /\ Len(results) = 5
    /\ Len(remaining_keys) = 1

\* a directional control, the overworld state, the same map and position
IsDirectionalControl(c) ==
    /\ Fields(c).type = "control"
    /\ IsStr(Fields(c).command)
    /\ normalize_control_command(Fields(c).command.v) \in {S_up, S_down, S_left, S_right}
InOverworld(state) ==
    state.st = "full" /\ ~state.inDialog /\ ~state.inBattle /\ ~state.fieldLocked
SamePlace(b, a) == b.st = "full" /\ a.st = "full" /\ b.map = a.map /\ b.pos = a.pos

\* C5: each executed step sets the collision streak to the previous streak
\* plus 1 when it is a directional control with the same map and position
\* before and after, both in overworld state, and to 0 after any other outcome.
C5_StreakFollowsEachStep ==
    [][ Len(results') = Len(results) + 1 =>
          collision_streak' =
              IF /\ IsDirectionalControl(results'[Len(results')].command)
                 /\ SamePlace(before, after')
                 /\ InOverworld(before) /\ InOverworld(after')
              THEN collision_streak + 1
              ELSE 0 ]_vars

\* C6: when a dialog or a battle stops the sequence at a directional control
\* whose map and position are the same before and after, remaining_keys
\* begins with that command, followed by the later ones; in every other
\* dialog / battle stop it begins with the command after the stopping step.
C6_RequeueOfBlockedMove ==
    (pc = "done" /\ (interrupted_by_dialog \/ interrupted_by_battle)) =>
        LET i == interrupted_at_index
            n == Len(normalized_commands)
        IN  /\ i = LastStep.index
            /\ remaining_keys =
                 IF IsDirectionalControl(normalized_commands[i + 1]) /\ SamePlace(before, after)
                 THEN SubSeq(normalized_commands, i + 1, n)
                 ELSE SubSeq(normalized_commands, i + 2, n)

\* a move that ran into a dialog without leaving its tile is handed back
\* ahead of the command after it
C6_Witness ==
    /\ pc = "done"
    /\ interrupted_by_dialog
    /\ interrupted_at_index = 0
    /\ Len(remaining_keys) = 2
    /\ remaining_keys[1] = normalized_commands[1]
    /\ remaining_keys[1] # remaining_keys[2]

\* C7: the commands reach the emulator one at a time in list order, none
\* before the step before it has been recorded with its after-state, and
\* results[k] is the record of the k-th command with index k: results is a
\* prefix of the command list.
C7_InOrderOneAtATime ==
    /\ \A k \in 1..Len(issued) :
          /\ issued[k] <= Len(results)
          /\ k > 1 => issued[k - 1] < issued[k]
    /\ pc \in {"step_issue", "step_after"} => (idx = Len(results) /\ ~StepDone)
    /\ Len(results) <= Len(normalized_commands)
    /\ \A k \in 1..Len(results) :
          /\ results[k].index = k - 1
          /\ results[k].command = normalized_commands[k]

\* two different commands, both sent to the emulator, both recorded
C7_Witness ==
    /\ pc = "done"
    /\ Len(results) = 2
    /\ issued = <<0, 1>>
    /\ results[1].ok /\ results[2].ok
    /\ results[1].command # results[2].command

\* the commands of the step records, in the order of the records
ResultCommands == [k \in 1..Len(results) |-> results[k].command]
Interrupted == interrupted_by_dialog \/ interrupted_by_battle \/ interrupted_by_collision
\* the stopping step was a move that is handed back
RequeuedLastStep ==
    /\ interrupted_by_dialog \/ interrupted_by_battle
    /\ results # << >> /\ remaining_keys # << >>
    /\ IsDirectionalControl(LastStep.command)
    /\ remaining_keys[1] = LastStep.command
    /\ SubSeq(ResultCommands, 1, Len(results) - 1) \o remaining_keys = normalized_commands

\* C36: in every /sendCommands response the executed commands followed by
\* remaining_keys are the accepted commands, each once and in order, except
\* that a requeued move is both the last result and the first remaining key;
\* when the call is not interrupted remaining_keys is empty and every
\* accepted command has a result.
C36_ResultsAndRemainingAccountForAll ==
    pc = "done" =>
        /\ \/ ResultCommands \o remaining_keys = normalized_commands
           \/ RequeuedLastStep
        /\ ~Interrupted =>
              /\ remaining_keys = << >>
              /\ ResultCommands = normalized_commands

\* a battle stops the call at its first command, a tap: the second command
\* is handed back, the first is not
C36_Witness ==
    /\ pc = "done"
    /\ interrupted_by_battle /\ ~interrupted_by_dialog
    /\ Len(results) = 1 /\ Len(normalized_commands) = 2
    /\ ~IsDirectionalControl(LastStep.command)
    /\ remaining_keys = << normalized_commands[2] >>

-----------------------------------------------------------------------------
(* Properties of the server.                                               *)

\* the handler of thread t has its response
Returned(t) == thKind[t] # "idle" /\ Op(t) = "return"

\* C8: at no time are two requests outstanding on the emulator channel, even
\* with /requestData and /sendCommands (or two calls of either) served at the
\* same time.
C8_OneRequestOutstanding == Cardinality(outstanding) <= 1

\* C9: every snapshot the store returns is the state stored by one single
\* update, the one whose seq it carries: its grid and its other fields are
\* those of that update, whatever updates or in-place changes of the grid
\* happen meanwhile.
C9_SnapshotIsOneStoredState ==
    \A t \in Threads :
        (thKind[t] = "minimapSnapshot" /\ Returned(t) /\ thOut[t].seq > 0)
            => thOut[t] = stored[thOut[t].seq]

\* every seq given out so far names the state stored under it; a snapshot
\* carries a seq given out and the position stored under that seq
SeqNamesStoredState ==
    /\ \A n \in 1..MaxSeq : (n <= store_seq) = (stored[n].seq = n)
    /\ store_seq > 0 => stored[store_seq].pos = store_data.pos
    /\ \A t \in Threads :
          thOut[t].seq > 0 =>
              /\ thOut[t].seq <= store_seq
              /\ thOut[t].pos = stored[thOut[t].seq].pos
    /\ \A t1, t2 \in Threads :
          (thOut[t1].seq > 0 /\ thOut[t1].seq = thOut[t2].seq)
              => thOut[t1].pos = thOut[t2].pos
\* seq moves by one, with a stored state, or not at all; the stored fields
\* change only with seq, and a state once stored stays as it was
SeqMovesWithEachStore ==
    /\ store_seq' \in {store_seq, store_seq + 1}
    /\ store_data' # store_data => store_seq' = store_seq + 1
    /\ store_seq' = store_seq + 1 => stored'[store_seq'].seq = store_seq'
    /\ \A n \in 1..store_seq : stored'[n] = stored[n]

\* C39: the seq of the snapshot store goes up by exactly 1 on every update
\* that stores something and never otherwise: seq is strictly increasing
\* over the stored states, and two returned snapshots with the same seq
\* carry the same position fields.
C39_SeqCountsStoredStates == [](SeqNamesStoredState) /\ [][SeqMovesWithEachStore]_vars

\* two snapshots taken on two threads around an update: different seq,
\* different positions
C39_Witness ==
    /\ thOut["t1"].seq = 1 /\ thOut["t2"].seq = 2
    /\ thOut["t1"].pos # thOut["t2"].pos
    /\ store_seq = 2

\* C10: serving /minimapSnapshot puts no request on the emulator channel, and
\* the only thing it waits for, the lock of the store, is never held by a
\* thread that is waiting for the emulator.
C10_MinimapNeverTouchesEmulator ==
    /\ \A t \in Threads : thKind[t] = "minimapSnapshot" => t \notin outstanding
    /\ store_lock \notin outstanding

\* a snapshot with a grid has been returned while a /sendCommands call has a
\* request on the channel
C10_Witness ==
    \E t \in Threads, u \in Threads :
        /\ thKind[t] = "minimapSnapshot" /\ Returned(t)
        /\ Len(thOut[t].grid) = 2
        /\ thKind[u] = "sendCommands" /\ u \in outstanding

-----------------------------------------------------------------------------
(* Properties of the savestate backup.                                     *)

\* C11: across any sequence of /requestData calls, concurrent ones and ones
\* whose backup attempt fails included, any two save requests are at least
\* interval_s seconds apart.
C11_SaveRequestsAnIntervalApart ==
    \A i, j \in 1..Len(save_requests) :
        i < j => save_requests[j] - save_requests[i] >= interval_s

-----------------------------------------------------------------------------
(* Properties of the fog of war.                                           *)

Discovered(g, x, y) == y <= Len(g) /\ x <= Len(g[y]) /\ g[y][x] # NoneCell
DiscoveredCells(g) ==
    { << x, y >> \in (1..MaxMapW) \X (1..MaxMapH) : Discovered(g, x, y) }
\* this step is a fog update
FogStep == fog_calls' # fog_calls

-----------------------------------------------------------------------------
(* Properties of the map readers.                                          *)

HiddenItemKinds == {5, 6, BG_EVENT_KIND_HIDDEN_ITEM}

\* C15: no BG event of a hidden-item kind (5, 6 or the dedicated kind) is
\* ever returned by the BG-event reader, computed or taken from the cache.
C15_NoHiddenItemReturned ==
    /\ \A i \in 1..Len(bg_ret) : bg_ret[i].kind \notin HiddenItemKinds
    /\ \A b \in DOMAIN BG_EVENTS_CACHE :
          \A i \in 1..Len(BG_EVENTS_CACHE[b].events) :
              BG_EVENTS_CACHE[b].events[i].kind \notin HiddenItemKinds

\* one event came back from the cache, and the list computed for the other
\* map, of two events, kept one
C15_Witness ==
    /\ bg_last.hit /\ Len(bg_ret) = 1
    /\ \E b \in DOMAIN BG_EVENTS_CACHE :
          /\ b # bg_last.base
          /\ Len(BG_EVENTS_CACHE[b].events) = 1
          /\ BG_EVENTS_CACHE[b].events[1].position[1] = 2

\* the cells of the grid classified, with their values
Classified == ret.fn = "process_tiles_to_collision_map"
CellIndexes == 0..(Len(arg.tile_values) - 1)
CellValue(i) == arg.tile_values[i + 1]
CellTag(i) == ret.map_data[(i \div arg.width) + 1][(i % arg.width) + 1]
CellBehavior(i) ==
    IF arg.behaviors.len > 0 /\ (CellValue(i) % 1024) < arg.behaviors.len
    THEN arg.behaviors.at[CellValue(i) % 1024] ELSE -1
IsLedgeOrWaterfall(b) == b \in {19, 56}

\* C16: for every cell of the classified grid, if its collision bits are
\* non-zero and its behavior is neither a ledge nor the waterfall, its tag is
\* Wall, whatever its behavior, its elevation and its neighbours.
C16_CollisionBitsGiveWall ==
    Classified =>
        \A i \in CellIndexes :
            (CellValue(i) \div 1024) % 4 # 0 /\ ~IsLedgeOrWaterfall(CellBehavior(i))
                => CellTag(i) = "Wall"

\* a cell with collision bits whose behavior is water, at the player's
\* elevation, next to a free cell
C16_Witness ==
    /\ Classified
    /\ \E i \in CellIndexes :
          /\ (CellValue(i) \div 1024) % 4 # 0 /\ CellBehavior(i) = 16
          /\ CellTag(i) = "Wall"
    /\ \E i \in CellIndexes : CellTag(i) = "Walkable"

\* C17: every cell whose value is the undefined sentinel 0x3FF is tagged
\* Wall, whatever behavior the tileset records for metatile id 0x3FF and
\* whatever the player's elevation and surfing state.
C17_UndefinedIsWall ==
    Classified =>
        \A i \in CellIndexes : CellValue(i) = 1023 => CellTag(i) = "Wall"

MapWasRead == ret.fn = "read_map_tiles"
BackupLargeEnough ==
    /\ arg.backup_w >= arg.main_w + 2 * 7 + 1
    /\ arg.backup_h >= arg.main_h + 2 * 7

\* C18: the main grid is replaced by values taken from the backup grid only
\* when backup_w >= main_w + 2*MAP_OFFSET + 1 and backup_h >= main_h +
\* 2*MAP_OFFSET (MAP_OFFSET = 7); otherwise the raw main grid is returned
\* unchanged.
C18_DerivedOnlyFromLargeBackup ==
    MapWasRead =>
        /\ ret.derived => BackupLargeEnough
        /\ ret.derived =>
              \A y \in 0..(arg.main_h - 1), x \in 0..(arg.main_w - 1) :
                  ret.main_tiles[y * arg.main_w + x + 1]
                      = arg.backup_tiles[(y + 7) * arg.backup_w + 7 + x + 1]
        /\ ~BackupLargeEnough => ret.main_tiles = arg.main_tiles

\* a 2 x 2 main grid was replaced from a backup grid wider than required
C18_Witness ==
    /\ MapWasRead /\ ret.derived
    /\ arg.main_w = 2 /\ arg.main_h = 2 /\ arg.backup_w = 18
    /\ ret.main_tiles # arg.main_tiles

\* C19: the connection list returned holds an entry for each of up, down,
\* left and right, the directions without an adjacent map as sentinel
\* entries, also when the map has no connections at all.
C19_EveryDirectionListed ==
    conn_last.called =>
        \A d \in {"up", "down", "left", "right"} :
            \E i \in 1..Len(conn_ret) : conn_ret[i].direction = d

-----------------------------------------------------------------------------
(* Properties of the party reader.                                         *)

PartyWasRead == ret.fn = "get_party_data"

\* C20: for every party slot i (0 <= i < 6), if the slot's PID is 0 or its
\* decoded species is 0, the reported party has at most i entries.
C20_PartyEndsAtFirstEmptySlot ==
    PartyWasRead =>
        \A i \in 0..5 :
            arg.slots[i + 1].pid = 0 \/ arg.slots[i + 1].species = 0
                => Len(ret.party) <= i /\ ret.count <= i

\* three mons of both orders, then a slot with a pid and species 0, then mons
C20_Witness ==
    /\ PartyWasRead
    /\ arg.raw_len = 600
    /\ arg.slots[4].pid # 0 /\ arg.slots[4].species = 0
    /\ arg.slots[5].species # 0
    /\ Len(ret.party) = 3 /\ ret.count = 3
    /\ ret.party[1].speciesId = 25 /\ ret.party[2].speciesId = 300

-----------------------------------------------------------------------------
(* Properties of the bag reader.                                           *)

PocketWasRead == ret.fn = "read_pocket_items"

\* slot i (from 1) closes a run of three empty slots
ThirdEmpty(i) ==
    /\ i >= 3
    /\ \A j \in (i - 2)..i : arg.slots[j].id = 0
\* the filled slots read before the first run of three empty slots
SlotsBeforeThirdEmpty ==
    SelectSeq([k \in 1..ret.slots_read |-> [at |-> k, slot |-> arg.slots[k]]],
              LAMBDA e : /\ e.slot.id # 0
                         /\ ~\E i \in 1..e.at : ThirdEmpty(i))

\* C21: parsing of a bag pocket skips one or two consecutive empty slots and
\* still reports the filled slots that follow them, and it stops at the third
\* consecutive empty slot, reporting no slot after it.
C21_StopsAtThirdEmptySlot ==
    PocketWasRead =>
        ret.items = [k \in 1..Len(SlotsBeforeThirdEmpty) |->
                        SlotsBeforeThirdEmpty[k].slot]

\* an item, two empty slots, an item, three empty slots, an item
C21_Witness ==
    /\ PocketWasRead
    /\ Len(arg.slots) = 6 /\ arg.cut = 0 /\ arg.sec_key # 0
    /\ arg.slots[1].id = 0 /\ arg.slots[2].id = 300
    /\ arg.slots[3].id = 0 /\ arg.slots[4].id = 0 /\ arg.slots[5].id = 0
    /\ arg.slots[6].id = 13
    /\ ret.items = << [id |-> 300, quantity |-> 999] >>

-----------------------------------------------------------------------------
(* Properties of the move model.                                           *)

MoveWasApplied == ret.fn = "apply_move_with_ledge"
\* the tile ahead is a ledge of the direction pressed
OntoLedgeOfSameDirection ==
    /\ arg.t1 \in DOMAIN LEDGE_DIR
    /\ LEDGE_DIR[arg.t1] = DIRS[arg.move_dir]
\* where the press leads: one tile ahead, two tiles ahead
LedgeTile ==
    << arg.cur[1] + DIRS[arg.move_dir][1], arg.cur[2] + DIRS[arg.move_dir][2] >>
TwoTilesAway ==
    << arg.cur[1] + 2 * DIRS[arg.move_dir][1], arg.cur[2] + 2 * DIRS[arg.move_dir][2] >>

\* C22 as stated: pressing a direction onto a ledge tile of that same
\* direction yields the position two tiles away in that direction, never the
\* ledge tile itself.
C22_LedgeMovesTwoTiles ==
    MoveWasApplied /\ OntoLedgeOfSameDirection => ret.pos = TwoTilesAway

\* C22 amended: pressing a direction onto a ledge tile of that same direction
\* yields either no position at all (the ledge or the tile behind it cannot
\* be entered) or the position two tiles away, never the ledge tile itself.
C22_LedgeMovesTwoTilesOrNowhere ==
    MoveWasApplied /\ OntoLedgeOfSameDirection =>
        /\ ret.pos \in {NoCoord, TwoTilesAway}
        /\ ret.pos # LedgeTile

\* from (5,5), down onto LEDGE_SOUTH with free ground behind it: (5,7)
C22_Witness ==
    /\ MoveWasApplied
    /\ arg.cur = << 5, 5 >> /\ arg.move_dir = "down"
    /\ arg.t1 = LEDGE_SOUTH /\ arg.t2 = FREE /\ arg.extra_blocked = {}
    /\ ret.pos = << 5, 7 >>

-----------------------------------------------------------------------------
(* Properties of the fog updates of the server.                            *)

InFogUpdate(t) == thSub[t] = "fog"

\* C23: no two fog-of-war updates run at the same time: the fog update of a
\* /requestData snapshot build and the per-step fog update of a /sendCommands
\* call never overlap on the process-wide fog map.
C23_FogUpdatesNeverOverlap ==
    \A a \in Threads, b \in Threads : a # b => ~(InFogUpdate(a) /\ InFogUpdate(b))

-----------------------------------------------------------------------------
(* Properties of the fog hook of send_commands.                            *)

\* a step has just been completed: the call moves on or returns
StepCompleted == results # << >> /\ pc \in {"step_before", "done"}
CompletedCommand == Fields(results[Len(results)].command)

\* C24: after every executed press, hold or control step whose after-state is
\* not fully locked, the fog engine is updated for the current map before the
\* call moves on to the next command or returns.
C24_FogUpdatedAfterEveryStep ==
    /\ StepCompleted
    /\ CompletedCommand.type \in {"press", "hold", "control"}
    /\ results[Len(results)].ok
    /\ after.st = "full" /\ ~allControlsLocked(after)
    => fog_last.caller = "step" /\ fog_last.ran

\* C25 as stated: when the per-step fog update reports shape_mismatch, the
\* step's trace contains no tilesDiscovered entry and no groundWallChanged
\* entry.
C25_NoDeltaOnShapeMismatch ==
    StepCompleted /\ fog_last.caller = "step" /\ fog_last.shape_mismatch
    => ~fog_last.tilesDiscovered /\ ~fog_last.groundWallChanged

\* C25 amended: when the per-step fog update reports shape_mismatch, the
\* step's trace contains no tilesDiscovered entry, and a groundWallChanged
\* entry only from the passability fallback of an A-like step: the three
\* deltas of the fog update are discarded.
C25_NoFogDeltaOnShapeMismatch ==
    StepCompleted /\ fog_last.caller = "step" /\ fog_last.shape_mismatch
    => /\ ~fog_last.tilesDiscovered
       /\ fog_last.groundWallChanged =>
             /\ fog_last.fromFallback
             /\ is_a_like_command(CompletedCommand)

\* a move whose fog update reports a shape mismatch
C25_Witness ==
    /\ StepCompleted /\ fog_last.caller = "step" /\ fog_last.shape_mismatch
    /\ ~is_a_like_command(CompletedCommand)
    /\ ~fog_last.tilesDiscovered /\ ~fog_last.groundWallChanged
    /\ Len(results) = 2

\* the fifth bump in a row stops the call before the hook of that step
C24_Witness ==
    /\ StepCompleted /\ interrupted_by_collision
    /\ results[Len(results)].ok /\ ~allControlsLocked(after)
    /\ fog_last = NoStepFog

-----------------------------------------------------------------------------
(* Properties of the caches of build_full_state.                           *)

BagPcBuilt == build_last.fn = "bag_pc"
BagAndPcMenus ==
    {"bagMenu", "itemStorageList", "itemStorageMenu", "pokemonStorage",
     "pokemonStoragePcMenu", "playerPcMenu"}

\* C26: in any snapshot build where menuType is one of bagMenu,
\* itemStorageList, itemStorageMenu, pokemonStorage, pokemonStoragePcMenu or
\* playerPcMenu, neither the bag nor the PC value is served from its TTL
\* cache, and the bag is also decoded afresh whenever a battle is active.
C26_MenusAndBattleForceRefresh ==
    BagPcBuilt =>
        /\ build_last.menu_type \in BagAndPcMenus
              => ~build_last.bag_cache /\ ~build_last.pc_cache
        /\ build_last.in_battle => ~build_last.bag_cache

\* C27: a bag (respectively PC) value is served from the cache only if it was
\* decoded at most 0.8 s (respectively 1.5 s) earlier and the security key
\* (respectively saveblock-1 pointer) read in the current build equals the
\* one it was decoded under.
C27_CacheServedWithinTtlUnderSameKey ==
    BagPcBuilt =>
        /\ build_last.bag_cache =>
              /\ build_last.now - build_last.bag.at <= BAG_CACHE_TTL_S
              /\ build_last.security_key = build_last.bag.under
        /\ build_last.pc_cache =>
              /\ build_last.now - build_last.pc.at <= PC_CACHE_TTL_S
              /\ build_last.sb1_ptr = build_last.pc.under

DialogBuilt == build_last.fn = "dialog"

C29_LedgeAndWaterfallTagsAreFinal ==
    Classified =>
        \A i \in CellIndexes :
            CellValue(i) # MAPGRID_UNDEFINED =>
                /\ CellBehavior(i) \in DOMAIN LEDGE_BEHAVIOR_ID_TO_TILE
                      => CellTag(i) = LEDGE_BEHAVIOR_ID_TO_TILE[CellBehavior(i)]
                /\ CellBehavior(i) = WATERFALL_BEHAVIOR_ID => CellTag(i) = TILE_WATERFALL

\* a waterfall without collision bits is classified, and its tag is Water
C29_Witness ==
    /\ Classified
    /\ \E i \in CellIndexes :
          /\ CellValue(i) # MAPGRID_UNDEFINED
          /\ (CellValue(i) \div 1024) % 4 = 0 /\ CellBehavior(i) = WATERFALL_BEHAVIOR_ID
          /\ CellTag(i) = TILE_WATER

MapReadDone == map_read_last.fn = "read_map_fast"

\* C30: each invocation of the map reader issues at most four read requests
\* to the emulator, on every path: first sight of a map, static-cache hit,
\* and failure of a batched read.
C30_AtMostFourReadRequests ==
    MapReadDone => map_read_last.requests <= 4

\* the paths without a failed read: four requests at first sight, two on a
\* hit of the static cache
C30_AtMostFourWithoutFailure ==
    MapReadDone /\ map_read_last.path # "batched_read_failed"
        => map_read_last.requests <= 4

\* the second invocation hits the static cache after a first sight
C30_Witness ==
    /\ MapReadDone /\ map_reads = 2
    /\ map_read_last.path = "static_cache_hit"
    /\ map_read_last.requests = 2

-----------------------------------------------------------------------------
(* Properties of the loop of a_until_end_of_dialog.                        *)

DialogLoopDone == dlg_pc = "done"

\* C31: every execution of a_until_end_of_dialog issues at least one A
\* press, even when no dialog is open or a choice cursor is already visible
\* when it starts.
C31_AlwaysPressesAOnce == DialogLoopDone => a_issued >= 1

\* the loop started outside a dialog, pressed A once and stopped
C31_Witness ==
    /\ DialogLoopDone /\ a_issued = 1 /\ presses = 1
    /\ ~dlg_last.before.inDialog
    /\ stop_reason = "dialogEnded"

StopSeen(fields) == ~fields.inDialog \/ HasCursor(fields.visibleText)
Pressed == dlg_last.fn = "iteration" /\ dlg_last.pressed
DefaultTimeout == dialog_timeout_s(max_presses, AFTER_TAP_DELAY_S)

\* no A press follows a look that shows the end of the dialog or a choice
\* after at least one press, nor a spent budget of presses or of time
NoPressPastAStop ==
    /\ Pressed =>
          /\ dlg_last.presses_before < max_presses
          /\ dlg_last.elapsed_before < DefaultTimeout
          /\ dlg_last.presses_before >= 1 => ~StopSeen(dlg_last.before)
    /\ Pressed /\ dlg_last.after # NoFields /\ StopSeen(dlg_last.after) => DialogLoopDone
    /\ a_issued <= max_presses

\* C32: a_until_end_of_dialog stops, issuing no further A press, as soon as
\* after at least one press inDialog is seen false or the visible text holds
\* the cursor glyph, or the presses have reached the budget of 80, or the
\* timeout has elapsed; it always ends, with at most 80 presses.
C32_StopsAndEnds == [](NoPressPastAStop) /\ <>DialogLoopDone

\* the budget of presses is spent: 80 presses, no more
C32_Witness ==
    /\ DialogLoopDone /\ stop_reason = "maxPresses"
    /\ a_issued = max_presses /\ presses = max_presses

\* C40: in the transcript of a_until_end_of_dialog, after any sequence of
\* visible texts, no entry is empty and no entry is equal to, or a prefix
\* of, the entry that follows it.
C40_NoEntryIsPrefixOfNext ==
    \A k \in 1..Len(transcript) :
        /\ transcript[k] # << >>
        /\ k < Len(transcript) => ~StartsWith(transcript[k + 1], transcript[k])

\* a text that grew was coalesced into one entry
C40_Witness ==
    /\ dlg_last.fn = "iteration" /\ dlg_last.pressed
    /\ dlg_last.before.visibleText = << "x" >>
    /\ dlg_last.after.visibleText = << "x", "x" >>
    /\ transcript = << << "x", "x" >> >>

\* the complete tables of two tilesets given by their attribute pointers:
\* the behavior of metatile k at index k, the secondary tileset after the
\* primary one
complete_behaviors(tilesets) ==
    (IF tilesets[1] = 0 THEN << >> ELSE decoded_behaviors(tilesets[1], PrimaryMetatiles))
    \o (IF tilesets[2] = 0 THEN << >>
        ELSE decoded_behaviors(tilesets[2], SecondaryMetatiles))

\* the reader answered from its static cache, for the map the cache was
\* filled from
AnsweredFromStaticCache ==
    /\ MapReadDone /\ map_read_last.path = "static_cache_hit"
    /\ MAP_STATIC_CACHE.tilesets = map_read_last.tilesets

\* C37: whenever the map reader answers from its static cache, the behaviors
\* it returns are the complete decoded tables of the primary and secondary
\* tilesets of the map, the behavior of metatile m at index m, whatever the
\* earlier frames were, frames with a short attribute read included.
C37_CachedBehaviorsAreComplete ==
    AnsweredFromStaticCache => map_read_last.main_beh = complete_behaviors(map_read_last.tilesets)

\* the cache was filled by a frame with full reads and answers with both
\* tables
C37_Witness ==
    /\ AnsweredFromStaticCache
    /\ Len(map_read_last.main_beh) = PrimaryMetatiles + SecondaryMetatiles
    /\ map_read_last.main_beh = complete_behaviors(map_read_last.tilesets)

-----------------------------------------------------------------------------
(* Properties of the map pointers kept per map id.                         *)

\* C38: the events base and the connections pointer kept under a map id are
\* the pointers of that map's own header, and the pointer a reader is given
\* for a map id is the one of that map's header, however the reads of a
\* state build fall between the steps of a warp.
C38_CachedPointersAreTheMapsOwn ==
    /\ \A m \in WarpMaps :
          /\ MAP_EVENTS_BASE_BY_MAP[m] \in {NotCached, HeaderEventsPtr[m]}
          /\ MAP_CONNECTIONS_PTR_BY_MAP[m] \in {NotCached, HeaderConnectionsPtr[m]}
    /\ ptr_last.fn = "_get_map_events_base" => ptr_last.ptr = HeaderEventsPtr[ptr_last.key]
    /\ ptr_last.fn = "_get_map_connections_ptr"
          => ptr_last.ptr = HeaderConnectionsPtr[ptr_last.key]

\* a pointer kept under a map id is the one of another map's header, while
\* the game is at rest on a map and no state build is under way
C38_Witness ==
    /\ ptr_pc = "idle"
    /\ game_header = game_location
    /\ \E m \in WarpMaps :
          /\ MAP_EVENTS_BASE_BY_MAP[m] # NotCached
          /\ MAP_EVENTS_BASE_BY_MAP[m] # HeaderEventsPtr[m]

-----------------------------------------------------------------------------
(* Properties of the waits of a step of /sendCommands.                     *)

\* C33: when a full lock was detected after an input, in the change wait or
\* in the grace window, the after state of the step is a state read once
\* allControlsLocked was false or once the unlock wait had lasted its 8 s,
\* and the step reports unlockTimedOut exactly when that state is locked.
C33_AfterStateWaitsForUnlock ==
    (wait_pc = "done" /\ wait_info.lockDetected)
        => /\ wait_info.waitedForUnlock
           /\ ~is_all_controls_locked(wait_after)
                  \/ wait_hist.unlock_clock >= UNLOCK_TIMEOUT
           /\ wait_info.unlockTimedOut <=> is_all_controls_locked(wait_after)

\* a lock was detected and never cleared: the unlock wait ran its 8 s and
\* the step reports the timeout with a locked after state
C33_Witness ==
    /\ wait_pc = "done"
    /\ wait_info.lockDetected
    /\ wait_hist.exit = "unlock_timeout"
    /\ wait_hist.unlock_clock >= UNLOCK_TIMEOUT
    /\ wait_info.unlockTimedOut
    /\ is_all_controls_locked(wait_after)

\* C34: when allControlsLocked becomes true at some moment of the lock grace
\* window that follows the change wait, the step detects the lock
\* (lockDetected) and so waits for the unlock before it takes its after state.
C34_LockInWindowIsDetected ==
    (wait_pc = "done" /\ wait_hist.lock_in_window) => wait_info.lockDetected

\* a tap whose grace window of 0.6 s was left after two unchanged polls, the
\* lock coming later in the window: the after state is the unlocked one
C34_Witness ==
    /\ wait_pc = "done"
    /\ wait_par.kind = "tap"
    /\ wait_hist.exit = "stable"
    /\ wait_clock < wait_par.lock_grace
    /\ wait_hist.lock_in_window
    /\ is_all_controls_locked(game)
    /\ ~wait_info.lockDetected
    /\ ~is_all_controls_locked(wait_after)

====
